---- MODULE Spec2Model ----
(***************************************************************************)
(* Transcription job queue and daily quota of Recipe_AI.                   *)
(*                                                                         *)
(* The store holds two tables: transcription_jobs (variable jobs) and      *)
(* usage_daily (variable usage).  Workers and API callers act on them      *)
(* through SupabaseJobQueueRepository and SupabaseQuotaRepository          *)
(* (src/src/app/infra/db/supabase_jobs_repo.py).  Each repository method   *)
(* is one action per store round trip: a method that reads and then        *)
(* writes in two round trips (mark_failed, release_stale_locks) is two     *)
(* actions, and other callers may act between them.  The three server      *)
(* procedures the repository calls by name (fetch_and_lock_transcription_  *)
(* job, check_and_reserve_quota, adjust_quota_usage) are not part of the   *)
(* Python sources; they are modelled from the specification's text.        *)
(***************************************************************************)
EXTENDS Integers, Sequences, FiniteSets, TLC

\* ------------------------------------------------------------------ bounds
NumJobs    == 2      \* job ids 1..NumJobs may be enqueued
NumWorkers == 2      \* worker processes 1..NumWorkers
NumUsers   == 2      \* users 1..NumUsers
MaxTime    == 4      \* the clock of Spec stops at MaxTime (minutes)
MaxRetryTime == 6    \* the clock of SpecRetry stops at MaxRetryTime
TimeStep   == 2      \* minutes between two readings of the clock
LockTtl    == 1      \* lock_ttl_minutes handed to release_stale_locks
DailyLimit == 3      \* daily_limit handed to check_and_reserve_minutes
MaxMinutes == 4      \* largest estimated / actual minutes of one call
MaxCalls   == 3      \* reserve calls recorded for one user and day
MaxDay     == 1      \* dates 0..MaxDay
MaxPriority == 1     \* priorities 0..MaxPriority
MaxHalfMb  == 4      \* object sizes 0..MaxHalfMb half megabytes

\* ------------------------------------------------------- program constants
DEFAULT_MAX_ATTEMPTS == 3
DefaultPriority == 0     \* enqueue_transcription_job(priority: int = 0)

JobIds  == 1..NumJobs
Workers == 1..NumWorkers
Users   == 1..NumUsers
Days    == 0..MaxDay

\* NULL column values, one per column type
NoJob    == 0
NoWorker == 0
NoUser   == 0
NoTime   == -1
NoInt    == -1
NoStr    == "NULL"

\* JobStatus; ABSENT stands for "no row with this id"
QUEUED    == "QUEUED"
RUNNING   == "RUNNING"
DONE      == "DONE"
FAILED    == "FAILED"
CANCELLED == "CANCELLED"
ABSENT    == "ABSENT"

JobStatus == {QUEUED, RUNNING, DONE, FAILED, CANCELLED}
Terminal  == {DONE, FAILED, CANCELLED}

\* error messages a worker may report, and the two the sweep writes
Messages == {"engine error"}
MSG_TIMED_OUT_MAX == "Job timed out after max attempts"
MSG_TIMED_OUT_REQ == "Lock timed out, requeued for retry"

\* results a transcription may produce (arguments of mark_done)
Results ==
  { [transcript_text |-> "text a", segments_json |-> "segs a", language |-> "pt",
     duration_sec |-> 61, model_version |-> "v1"],
    [transcript_text |-> "text b", segments_json |-> "segs b", language |-> "en",
     duration_sec |-> 120, model_version |-> "v1"] }

\* update_job_progress argument triples (stage, progress, heartbeat?) as the
\* worker issues them
ProgressCalls ==
  { [stage |-> "DOWNLOADING",  progress |-> 0,     hb |-> TRUE],
    [stage |-> "TRANSCRIBING", progress |-> NoInt, hb |-> TRUE],
    [stage |-> "FINALIZING",   progress |-> NoInt, hb |-> TRUE],
    [stage |-> NoStr,          progress |-> 50,    hb |-> FALSE],
    [stage |-> NoStr,          progress |-> 99,    hb |-> TRUE],
    [stage |-> NoStr,          progress |-> NoInt, hb |-> TRUE] }

VARIABLES
  jobs,     \* transcription_jobs: job id -> row
  usage,    \* usage_daily: <<user, date>> -> row
  now,      \* the clock, in minutes
  today,    \* the current UTC date
  wk,       \* per worker: what its process is doing
  ret,      \* the operation of the last step and what it returned
  round,    \* bookkeeping of one round of concurrent lease_next calls
  calls,    \* the reserve calls of LoggedUser on date 0, in order
  proc      \* per worker: the fields of its TranscriberWorker, its position in
            \* the main loop, its temp directory and its heartbeat thread

vars == <<jobs, usage, now, today, wk, ret, round, calls, proc>>

\* ----------------------------------------------------------------- helpers
Min(a, b) == IF a <= b THEN a ELSE b

RECURSIVE Pow2(_)
Pow2(n) == IF n <= 0 THEN 1 ELSE 2 * Pow2(n - 1)

\* a row with the columns of update overwritten (PostgREST .update(data))
ApplyUpdate(row, update) ==
  [f \in DOMAIN row |-> IF f \in DOMAIN update THEN update[f] ELSE row[f]]

AbsentRow ==
  [status |-> ABSENT, user_id |-> NoUser, priority |-> 0,
   attempt_count |-> 0, max_attempts |-> 0, estimated_duration_sec |-> NoInt,
   next_attempt_at |-> NoTime, locked_at |-> NoTime, locked_by |-> NoWorker,
   stage |-> NoStr, progress |-> NoInt, last_heartbeat_at |-> NoTime,
   error_message |-> NoStr, created_at |-> NoTime, started_at |-> NoTime,
   finished_at |-> NoTime,
   transcript_text |-> NoStr, segments_json |-> NoStr, language |-> NoStr,
   duration_sec |-> NoInt, model_version |-> NoStr, object_key |-> <<>>]

Exists(j) == jobs[j].status # ABSENT

\* _safe_int: int(value) if value else default  (NULL and 0 both give default)
SafeInt(value, default) == IF value = NoInt \/ value = 0 THEN default ELSE value

\* _calculate_backoff_minutes
CalculateBackoffMinutes(attempt_count) == Pow2(attempt_count)

\* what the last repository call returned: ok is its boolean result (for
\* lease_next and enqueue: whether a job came back), job the job returned or
\* addressed, val a numeric result (a count, the minutes remaining)
Ret(ok, job, val) == [ok |-> ok, job |-> job, val |-> val, reason |-> NoStr]

NoUpdate == [status |-> ABSENT]

Idle == [pc |-> "idle", job |-> NoJob, p_now |-> NoTime, update |-> NoUpdate, stale |-> {},
         count |-> 0, step |-> "start", total_duration_sec |-> NoInt,
         processed_seconds |-> 0]

NoUsage == [exists |-> FALSE, minutes_used |-> 0]

\* TranscriberWorker.__init__ with the configuration of its run; at is the
\* position of the process in start() and _run_main_loop, temp_file_path the
\* local of _process_job, files the job ids that have a file in temp_dir,
\* stop_event / heartbeat / joined the heartbeat thread of
\* _execute_transcription.  leased counts the jobs lease_next handed to this
\* run, empty_since is the time of the first poll of the present run of
\* empty polls (empty_polls = 0 before it) and signalled_job the job that was
\* in flight when the signal came: the program keeps none of the three, they
\* are there for the properties only.
NewWorker(max_jobs_per_run, shutdown_on_empty) ==
  [running |-> FALSE, at |-> "new", current_job_id |-> NoJob, signalled_job |-> NoJob,
   jobs_processed |-> 0, last_job_time |-> NoTime,
   max_jobs_per_run |-> max_jobs_per_run, shutdown_on_empty |-> shutdown_on_empty,
   temp_file_path |-> NoJob, files |-> {},
   stop_event |-> FALSE, heartbeat |-> "none", heartbeat_job |-> NoJob, joined |-> FALSE,
   leased |-> 0, empty_since |-> NoTime]

NoRound == [active |-> FALSE, K |-> 0, called |-> {}, got |-> [w \in Workers |-> NoJob]]

\* ------------------------------------------------------------ job queue
\* _build_job_data: the columns enqueue writes
BuildJobData(user_id, priority) ==
  [user_id |-> user_id, status |-> QUEUED, priority |-> priority,
   attempt_count |-> 0, max_attempts |-> DEFAULT_MAX_ATTEMPTS, created_at |-> now]

\* the columns enqueue leaves to the table's defaults
ColumnDefaults == [stage |-> "QUEUED", progress |-> 0]

\* uuid4(): an id no row has yet
FreshId == CHOOSE j \in JobIds : ~Exists(j) /\ \A i \in JobIds : ~Exists(i) => j <= i

\* enqueue_transcription_job
Enqueue(u, priority, ok) ==
  /\ \E j \in JobIds : ~Exists(j)
  /\ IF ok
       THEN /\ jobs' = [jobs EXCEPT ![FreshId] =
                          ApplyUpdate(ApplyUpdate(AbsentRow, ColumnDefaults),
                                      BuildJobData(u, priority))]
            /\ ret' = Ret(TRUE, FreshId, 0)
       ELSE /\ UNCHANGED jobs
            /\ ret' = Ret(FALSE, NoJob, 0)
  /\ UNCHANGED <<proc, usage, now, today, wk, round, calls>>

\* the lease procedure selecting without FOR UPDATE: no row is ever locked
RowLockedNever(j) == FALSE

\* a row lock held by an open fetch_and_lock_transcription_job transaction
RowLocked(j) == \E w \in Workers : wk[w].pc = "lease_tx" /\ wk[w].job = j

\* the WHERE clause with next_attempt_at < now(): a row due exactly now is
\* passed over
EligibleStrict(j, t) ==
  /\ jobs[j].status = QUEUED
  /\ (jobs[j].next_attempt_at = NoTime \/ jobs[j].next_attempt_at < t)

\* the WHERE clause of the lease procedure
Eligible(j, t) ==
  /\ jobs[j].status = QUEUED
  /\ (jobs[j].next_attempt_at = NoTime \/ jobs[j].next_attempt_at <= t)

\* ORDER BY priority DESC, created_at ASC, id
Before(a, b) ==
  \/ jobs[a].priority > jobs[b].priority
  \/ /\ jobs[a].priority = jobs[b].priority
     /\ \/ jobs[a].created_at < jobs[b].created_at
        \/ jobs[a].created_at = jobs[b].created_at /\ a < b

\* rows the SELECT may return: eligible and not locked by another transaction
Candidates(t) == {j \in JobIds : Eligible(j, t) /\ ~RowLocked(j)}

\* SELECT ... FOR UPDATE SKIP LOCKED LIMIT 1
SelectSkipLocked(t) ==
  IF Candidates(t) = {} THEN NoJob
  ELSE CHOOSE j \in Candidates(t) : \A i \in Candidates(t) \ {j} : Before(j, i)

\* the UPDATE of the lease procedure
LeaseUpdate(row, worker_id, t) ==
  [status |-> RUNNING, locked_by |-> worker_id, locked_at |-> t, started_at |-> t,
   stage |-> "DOWNLOADING", progress |-> 0, last_heartbeat_at |-> t,
   attempt_count |-> row.attempt_count + 1]

\* fetch_and_lock_next_job with the emptiness test inverted: nothing is
\* handed back although the procedure leased a row
FetchAndLockResultInverted(data) == NoJob

\* what fetch_and_lock_next_job hands back for the rows the rpc returned:
\* None when result.data is empty, else the job of result.data[0]
FetchAndLockResult(data) == IF data = <<>> THEN NoJob ELSE data[1]

\* a call of the round: the worker has called, and got is what came back
RoundCall(w, j, returned) ==
  IF round.active
    THEN [round EXCEPT !.called = @ \cup {w},
                       !.got = IF returned THEN [@ EXCEPT ![w] = j] ELSE @]
    ELSE round

\* fetch_and_lock_next_job, first half: the rpc call opens the transaction
\* and selects a row, or finds none and returns; a connection error or
\* timeout gives None without reaching the store
LeaseBegin(w, ok) ==
  /\ wk[w].pc = "idle"
  /\ round.active => w \notin round.called
  /\ IF ~ok
       THEN /\ ret' = Ret(FALSE, NoJob, 0)
            /\ UNCHANGED <<proc, wk, round>>
       ELSE LET j == SelectSkipLocked(now) IN
            IF j = NoJob
              THEN /\ ret' = Ret(FALSE, FetchAndLockResult(<<>>), 0)
                   /\ round' = RoundCall(w, FetchAndLockResult(<<>>), TRUE)
                   /\ UNCHANGED wk
              ELSE /\ wk' = [wk EXCEPT ![w] = [Idle EXCEPT !.pc = "lease_tx", !.job = j,
                                                           !.p_now = now]]
                   /\ round' = RoundCall(w, j, FALSE)
                   /\ UNCHANGED ret
  /\ UNCHANGED <<proc, jobs, usage, now, today, calls>>

\* fetch_and_lock_next_job, second half: the procedure updates the selected
\* row, commits and returns it; the worker then processes what it was handed
LeaseCommit(w) ==
  /\ wk[w].pc = "lease_tx"
  /\ LET j == wk[w].job
         got == FetchAndLockResult(<<j>>)
     IN
     /\ jobs' = [jobs EXCEPT ![j] = ApplyUpdate(@, LeaseUpdate(@, w, wk[w].p_now))]
     /\ wk' = [wk EXCEPT ![w] = IF got = NoJob THEN Idle
                                ELSE [Idle EXCEPT !.pc = "processing", !.job = got]]
     /\ ret' = Ret(got # NoJob, got, 0)
     /\ round' = RoundCall(w, got, TRUE)
  /\ UNCHANGED <<proc, usage, now, today, calls>>

\* the columns mark_done writes
MarkDoneUpdate(r, t) ==
  [status |-> DONE, stage |-> "DONE", progress |-> 100, finished_at |-> t,
   last_heartbeat_at |-> t,
   transcript_text |-> r.transcript_text, segments_json |-> r.segments_json,
   language |-> r.language, duration_sec |-> r.duration_sec,
   model_version |-> r.model_version,
   locked_at |-> NoTime, locked_by |-> NoWorker, error_message |-> NoStr]

\* mark_done gated on the lease: UPDATE ... WHERE id = job_id AND
\* locked_by = worker_id
MarkDoneGated(w, r, ok) ==
  /\ wk[w].pc = "processing"
  /\ LET j == wk[w].job IN
     /\ ~RowLocked(j)
     /\ IF ok /\ jobs[j].locked_by = w
          THEN /\ jobs' = [jobs EXCEPT ![j] = ApplyUpdate(@, MarkDoneUpdate(r, now))]
               /\ ret' = Ret(TRUE, j, 0)
          ELSE /\ UNCHANGED jobs
               /\ ret' = Ret(FALSE, j, 0)
  /\ wk' = [wk EXCEPT ![w] = Idle]
  /\ UNCHANGED <<proc, usage, now, today, round, calls>>

\* mark_done: UPDATE ... WHERE id = job_id; the worker's attempt ends either way
MarkDone(w, r, ok) ==
  /\ wk[w].pc = "processing"
  /\ LET j == wk[w].job IN
     /\ ~RowLocked(j)
     /\ IF ok
          THEN /\ jobs' = [jobs EXCEPT ![j] = ApplyUpdate(@, MarkDoneUpdate(r, now))]
               /\ ret' = Ret(Exists(j), j, 0)
          ELSE /\ UNCHANGED jobs
               /\ ret' = Ret(FALSE, j, 0)
  /\ wk' = [wk EXCEPT ![w] = Idle]
  /\ UNCHANGED <<proc, usage, now, today, round, calls>>

\* the columns update_job_progress writes: only the arguments that are given
ProgressUpdate(c, t) ==
  LET fields == (IF c.stage # NoStr THEN {"stage"} ELSE {})
                \cup (IF c.progress # NoInt THEN {"progress"} ELSE {})
                \cup (IF c.hb THEN {"last_heartbeat_at"} ELSE {})
  IN [f \in fields |-> CASE f = "stage" -> c.stage
                         [] f = "progress" -> c.progress
                         [] OTHER -> t]

\* update_job_progress: UPDATE ... WHERE id = job_id
UpdateProgress(w, c, ok) ==
  /\ wk[w].pc = "processing"
  /\ LET j == wk[w].job IN
     /\ ~RowLocked(j)
     /\ IF ok
          THEN /\ jobs' = [jobs EXCEPT ![j] = ApplyUpdate(@, ProgressUpdate(c, now))]
               /\ ret' = Ret(Exists(j), j, 0)
          ELSE /\ UNCHANGED jobs
               /\ ret' = Ret(FALSE, j, 0)
  /\ UNCHANGED <<proc, usage, now, today, wk, round, calls>>

\* _get_job_retry_info: the SELECT attempt_count, max_attempts of mark_failed
GetJobRetryInfo(j) ==
  [attempt_count |-> SafeInt(jobs[j].attempt_count, 0),
   max_attempts  |-> SafeInt(jobs[j].max_attempts, DEFAULT_MAX_ATTEMPTS)]

\* should_retry with the budget test relaxed to attempt_count <= max_attempts
ShouldRetryInclusive(permanent, job_info) ==
  ~permanent /\ job_info.attempt_count <= job_info.max_attempts

\* should_retry of mark_failed
ShouldRetry(permanent, job_info) ==
  ~permanent /\ job_info.attempt_count < job_info.max_attempts

\* _build_failure_update without "locked_by": None in base_data
BuildFailureUpdateKeepsHolder(error_message, should_retry, job_info, retry_at, t) ==
  IF should_retry
    THEN [error_message |-> error_message, locked_at |-> NoTime,
          last_heartbeat_at |-> t, status |-> QUEUED,
          next_attempt_at |-> IF retry_at # NoTime THEN retry_at
                              ELSE t + CalculateBackoffMinutes(job_info.attempt_count),
          stage |-> "QUEUED", progress |-> 0]
    ELSE [error_message |-> error_message, locked_at |-> NoTime,
          last_heartbeat_at |-> t, status |-> FAILED,
          finished_at |-> t, stage |-> "FAILED"]

\* _build_failure_update
BuildFailureUpdate(error_message, should_retry, job_info, retry_at, t) ==
  IF should_retry
    THEN [error_message |-> error_message, locked_at |-> NoTime, locked_by |-> NoWorker,
          last_heartbeat_at |-> t, status |-> QUEUED,
          next_attempt_at |-> IF retry_at # NoTime THEN retry_at
                              ELSE t + CalculateBackoffMinutes(job_info.attempt_count),
          stage |-> "QUEUED", progress |-> 0]
    ELSE [error_message |-> error_message, locked_at |-> NoTime, locked_by |-> NoWorker,
          last_heartbeat_at |-> t, status |-> FAILED,
          finished_at |-> t, stage |-> "FAILED"]

\* mark_failed, first round trip: read the retry info and build the update
MarkFailedRead(w, error_message, permanent, retry_at, ok) ==
  /\ wk[w].pc = "processing"
  /\ LET j == wk[w].job
         info == GetJobRetryInfo(j)
     IN IF ok
          THEN /\ wk' = [wk EXCEPT ![w] =
                   [Idle EXCEPT !.pc = "mark_failed", !.job = j,
                                !.update = BuildFailureUpdate(error_message,
                                    ShouldRetry(permanent, info), info, retry_at, now)]]
               /\ UNCHANGED ret
          ELSE /\ wk' = [wk EXCEPT ![w] = Idle]
               /\ ret' = Ret(FALSE, j, 0)
  /\ UNCHANGED <<proc, jobs, usage, now, today, round, calls>>

\* mark_failed, second round trip: UPDATE ... WHERE id = job_id
MarkFailedWrite(w, ok) ==
  /\ wk[w].pc = "mark_failed"
  /\ LET j == wk[w].job IN
     /\ ~RowLocked(j)
     /\ IF ok
          THEN /\ jobs' = [jobs EXCEPT ![j] = ApplyUpdate(@, wk[w].update)]
               /\ ret' = Ret(Exists(j), j, 0)
          ELSE /\ UNCHANGED jobs
               /\ ret' = Ret(FALSE, j, 0)
  /\ wk' = [wk EXCEPT ![w] = Idle]
  /\ UNCHANGED <<proc, usage, now, today, round, calls>>

\* StaleJobInfo.has_exceeded_attempts
HasExceededAttempts(job) == job.attempt_count >= job.max_attempts

\* _find_stale_jobs selecting on a status no leased row has: nothing is found
FindStaleJobsNone(cutoff) == {}

\* _find_stale_jobs: status = RUNNING and locked_at < cutoff
FindStaleJobs(cutoff) ==
  { [job_id |-> j, attempt_count |-> SafeInt(jobs[j].attempt_count, 0),
     max_attempts |-> SafeInt(jobs[j].max_attempts, DEFAULT_MAX_ATTEMPTS)] :
    j \in {i \in JobIds : jobs[i].status = RUNNING /\ jobs[i].locked_at < cutoff} }

\* _build_stale_release_update
BuildStaleReleaseUpdate(job, t) ==
  IF HasExceededAttempts(job)
    THEN [locked_at |-> NoTime, locked_by |-> NoWorker, status |-> FAILED,
          error_message |-> MSG_TIMED_OUT_MAX, finished_at |-> t]
    ELSE [locked_at |-> NoTime, locked_by |-> NoWorker, status |-> QUEUED,
          next_attempt_at |-> t + CalculateBackoffMinutes(job.attempt_count),
          error_message |-> MSG_TIMED_OUT_REQ]

\* release_stale_locks, first round trip: select the stale rows
SweepFind(w, ok) ==
  /\ wk[w].pc = "idle"
  /\ ~round.active
  /\ LET stale == FindStaleJobs(now - LockTtl) IN
     IF ok /\ stale # {}
       THEN /\ wk' = [wk EXCEPT ![w] = [Idle EXCEPT !.pc = "sweep", !.stale = stale,
                                                       !.count = Cardinality(stale)]]
            /\ UNCHANGED ret
       ELSE /\ UNCHANGED wk
            /\ ret' = Ret(TRUE, NoJob, 0)
  /\ UNCHANGED <<proc, jobs, usage, now, today, round, calls>>

\* release_stale_locks, one further round trip per stale row:
\* _release_single_stale_lock, UPDATE ... WHERE id = job_id
SweepRelease(w, ok) ==
  /\ wk[w].pc = "sweep"
  /\ \E job \in wk[w].stale :
       /\ ~RowLocked(job.job_id)
       /\ IF ok
            THEN /\ jobs' = [jobs EXCEPT ![job.job_id] =
                               ApplyUpdate(@, BuildStaleReleaseUpdate(job, now))]
                 /\ wk' = [wk EXCEPT ![w] =
                             IF wk[w].stale = {job} THEN Idle
                             ELSE [@ EXCEPT !.stale = @ \ {job}]]
                 /\ ret' = IF wk[w].stale = {job} THEN Ret(TRUE, NoJob, wk[w].count)
                                            ELSE ret
            ELSE /\ UNCHANGED jobs
                 /\ wk' = [wk EXCEPT ![w] = Idle]
                 /\ ret' = Ret(TRUE, NoJob, 0)
  /\ UNCHANGED <<proc, usage, now, today, round, calls>>

\* cancel_job without .eq("status", QUEUED): UPDATE ... WHERE id = job_id AND
\* user_id = user_id
CancelAnyStatus(u, j, ok) ==
  /\ ~RowLocked(j)
  /\ IF ok /\ jobs[j].user_id = u
       THEN /\ jobs' = [jobs EXCEPT ![j] =
                          ApplyUpdate(@, [status |-> CANCELLED, finished_at |-> now])]
            /\ ret' = Ret(TRUE, j, 0)
       ELSE /\ UNCHANGED jobs
            /\ ret' = Ret(FALSE, j, 0)
  /\ UNCHANGED <<proc, usage, now, today, wk, round, calls>>

\* cancel_job: UPDATE ... WHERE id = job_id AND user_id = user_id AND status = QUEUED
Cancel(u, j, ok) ==
  /\ ~RowLocked(j)
  /\ IF ok /\ jobs[j].user_id = u /\ jobs[j].status = QUEUED
       THEN /\ jobs' = [jobs EXCEPT ![j] =
                          ApplyUpdate(@, [status |-> CANCELLED, finished_at |-> now])]
            /\ ret' = Ret(TRUE, j, 0)
       ELSE /\ UNCHANGED jobs
            /\ ret' = Ret(FALSE, j, 0)
  /\ UNCHANGED <<proc, usage, now, today, wk, round, calls>>

\* ------------------------------------------------------------------ quota
\* the user whose reserve calls are recorded in calls
LoggedUser == 1

REASON_FAILED == "Quota check failed, allowing by default"

\* what get_daily_usage reports: the row's minutes_used, 0 when there is no row
MinutesUsed(u, d) == IF usage[<<u, d>>].exists THEN usage[<<u, d>>].minutes_used ELSE 0

\* the server procedure check_and_reserve_quota(user, date, minutes, limit):
\* row absent: insert it with minutes_used = minutes, allowed iff
\* minutes <= limit; row present: new = minutes_used + minutes, written back
\* and allowed iff new <= limit.  The minutes_remaining of a denial is not
\* described; the minutes the limit leaves above the stored minutes_used
\* (none when it is already above the limit) are reported.
CheckAndReserveQuota(row, minutes, limit) ==
  IF ~row.exists
    THEN [row |-> [exists |-> TRUE, minutes_used |-> minutes],
          data |-> [allowed |-> minutes <= limit,
                    minutes_remaining |-> IF minutes <= limit THEN limit - minutes
                                          ELSE 0]]
    ELSE LET new == row.minutes_used + minutes IN
         IF new <= limit
           THEN [row |-> [row EXCEPT !.minutes_used = new],
                 data |-> [allowed |-> TRUE, minutes_remaining |-> limit - new]]
           ELSE [row |-> row,
                 data |-> [allowed |-> FALSE,
                           minutes_remaining |-> IF row.minutes_used <= limit
                                                   THEN limit - row.minutes_used ELSE 0]]

\* _default_quota_check
DefaultQuotaCheck(daily_limit, reason) ==
  [ok |-> TRUE, job |-> NoJob, val |-> daily_limit, reason |-> reason]

\* _parse_quota_result reading a key the procedure does not return:
\* parsed.get(..., False) gives False for every call
ParseQuotaResultWrongKey(parsed, daily_limit) ==
  [ok |-> FALSE, job |-> NoJob, val |-> parsed.minutes_remaining, reason |-> NoStr]

\* _parse_quota_result for a non-empty result
ParseQuotaResult(parsed, daily_limit) ==
  [ok |-> parsed.allowed, job |-> NoJob, val |-> parsed.minutes_remaining,
   reason |-> NoStr]

\* check_and_reserve_minutes; outcome is what the rpc call does: "ok" runs
\* the procedure, "error" raises ConnectionError/TimeoutError, "nodata"
\* comes back with empty data
ReserveBody(u, minutes, outcome) ==
  LET r == CheckAndReserveQuota(usage[<<u, today>>], minutes, DailyLimit)
  IN
  /\ CASE outcome = "ok" ->
            /\ usage' = [usage EXCEPT ![<<u, today>>] = r.row]
            /\ ret' = ParseQuotaResult(r.data, DailyLimit)
       [] outcome = "error" ->
            /\ UNCHANGED usage
            /\ ret' = DefaultQuotaCheck(DailyLimit, REASON_FAILED)
       [] OTHER ->
            /\ UNCHANGED usage
            /\ ret' = DefaultQuotaCheck(DailyLimit, NoStr)
  /\ UNCHANGED <<proc, jobs, now, today, wk, round>>

Reserve(u, minutes, outcome) ==
  /\ ReserveBody(u, minutes, outcome)
  /\ UNCHANGED calls

\* the same call, with the calls of LoggedUser recorded
ReserveLogged(u, minutes, outcome) ==
  /\ u = LoggedUser => Len(calls) < MaxCalls
  /\ ReserveBody(u, minutes, outcome)
  /\ calls' = IF u = LoggedUser
                THEN Append(calls, [minutes |-> minutes, allowed |-> ret'.ok,
                                    reached |-> outcome = "ok"])
                ELSE calls

\* the server procedure adjust_quota_usage(user, date, delta): adds delta to
\* the day's minutes_used.  What it does when the day has no row is left
\* open by its description: upsert says whether it creates the row.
AdjustQuotaUsage(row, delta, upsert) ==
  IF row.exists THEN [row EXCEPT !.minutes_used = @ + delta]
  ELSE IF upsert THEN [exists |-> TRUE, minutes_used |-> delta]
  ELSE row

\* confirm_actual_minutes
Reconcile(u, estimated_minutes, actual_minutes, ok, upsert) ==
  LET diff == actual_minutes - estimated_minutes
      row  == AdjustQuotaUsage(usage[<<u, today>>], diff, upsert)
  IN
  /\ row.minutes_used \in (0 - MaxMinutes)..(DailyLimit + MaxMinutes)
  /\ IF diff = 0 \/ ~ok
       THEN UNCHANGED usage
       ELSE usage' = [usage EXCEPT ![<<u, today>>] = row]
  /\ ret' = Ret(TRUE, NoJob, 0)
  /\ UNCHANGED <<proc, jobs, now, today, wk, round, calls>>

\* midnight UTC: _get_today() changes
NextDay ==
  /\ today < MaxDay
  /\ today' = today + 1
  /\ UNCHANGED <<proc, jobs, usage, now, wk, ret, round, calls>>

Tick ==
  /\ now + TimeStep <= MaxTime
  /\ ~round.active
  /\ now' = now + TimeStep
  /\ UNCHANGED <<proc, jobs, usage, today, wk, ret, round, calls>>

Init ==
  /\ jobs = [j \in JobIds |-> AbsentRow]
  /\ usage = [k \in Users \X Days |-> NoUsage]
  /\ now = 0
  /\ today = 0
  /\ wk = [w \in Workers |-> Idle]
  /\ ret = Ret(TRUE, NoJob, 0)
  /\ round = NoRound
  /\ calls = <<>>
  /\ proc = [w \in Workers |-> NewWorker(0, FALSE)]

\* ------------------------------------------------------------ specification
\* Spec follows one row through its life: the repository methods address a
\* row by id and rows do not act on each other; the order in which lease_next
\* picks among several rows is the matter of SpecLease.
EnqueueRow(u, priority, ok) ==
  /\ \A j \in JobIds : ~Exists(j)
  /\ Enqueue(u, priority, ok)

Next ==
  \/ \E u \in Users, ok \in BOOLEAN : EnqueueRow(u, DefaultPriority, ok)
  \/ \E w \in Workers, ok \in BOOLEAN : LeaseBegin(w, ok)
  \/ \E w \in Workers : LeaseCommit(w)
  \/ \E w \in Workers, c \in ProgressCalls, ok \in BOOLEAN : UpdateProgress(w, c, ok)
  \/ \E w \in Workers, r \in Results, ok \in BOOLEAN : MarkDone(w, r, ok)
  \/ \E w \in Workers, m \in Messages, p \in BOOLEAN, ok \in BOOLEAN :
       MarkFailedRead(w, m, p, NoTime, ok)
  \/ \E w \in Workers, ok \in BOOLEAN : MarkFailedWrite(w, ok)
  \/ \E w \in Workers, ok \in BOOLEAN : SweepFind(w, ok)
  \/ \E w \in Workers, ok \in BOOLEAN : SweepRelease(w, ok)
  \/ \E u \in Users, j \in JobIds, ok \in BOOLEAN : Cancel(u, j, ok)
  \/ Tick

Spec == Init /\ [][Next]_vars

\* SpecLease: rows are enqueued and some cancelled, then a round of
\* concurrent lease_next calls runs, one call per worker, with nothing else
\* in between.
StartRound ==
  /\ ~round.active
  /\ \A w \in Workers : wk[w].pc = "idle"
  /\ round' = [NoRound EXCEPT !.active = TRUE,
                              !.K = Cardinality({j \in JobIds : Eligible(j, now)})]
  /\ UNCHANGED <<proc, jobs, usage, now, today, wk, ret, calls>>

NextLease ==
  \/ /\ ~round.active
     /\ \/ \E u \in Users, p \in 0..MaxPriority : Enqueue(u, p, TRUE)
        \/ \E u \in Users, j \in JobIds : Cancel(u, j, TRUE)
        \/ StartRound
  \/ /\ round.active
     /\ \/ \E w \in Workers : LeaseBegin(w, TRUE)
        \/ \E w \in Workers : LeaseCommit(w)

SpecLease == Init /\ [][NextLease]_vars

\* SpecRetry: the retry life of one row over a clock long enough for three
\* back-offs: every call reaches the store.
TickRetry ==
  /\ now + TimeStep <= MaxRetryTime
  /\ now' = now + TimeStep
  /\ UNCHANGED <<proc, jobs, usage, today, wk, ret, round, calls>>

NextRetry ==
  \/ \E u \in Users : now = 0 /\ EnqueueRow(u, DefaultPriority, TRUE)
  \/ \E w \in Workers : LeaseBegin(w, TRUE)
  \/ \E w \in Workers : LeaseCommit(w)
  \/ \E w \in Workers, r \in Results : MarkDone(w, r, TRUE)
  \/ \E w \in Workers, m \in Messages, p \in BOOLEAN : MarkFailedRead(w, m, p, NoTime, TRUE)
  \/ \E w \in Workers : MarkFailedWrite(w, TRUE)
  \/ \E w \in Workers : SweepFind(w, TRUE)
  \/ \E w \in Workers : SweepRelease(w, TRUE)
  \/ \E u \in Users, j \in JobIds : Cancel(u, j, TRUE)
  \/ TickRetry

SpecRetry == Init /\ [][NextRetry]_vars

\* SpecReserve: reserve calls only, within one day
NextReserve ==
  \E u \in Users, m \in 1..MaxMinutes, o \in {"ok", "error", "nodata"} :
    ReserveLogged(u, m, o)

SpecReserve == Init /\ [][NextReserve]_vars

\* SpecQuota: the reserve and reconcile calls of one user over the days
\* (usage rows are keyed by user and date; the rows of two users never meet)
NextQuota ==
  \/ \E m \in 1..MaxMinutes, o \in {"ok", "error", "nodata"} : Reserve(LoggedUser, m, o)
  \/ \E e \in 1..MaxMinutes, a \in 1..MaxMinutes, ok \in BOOLEAN, up \in BOOLEAN :
       Reconcile(LoggedUser, e, a, ok, up)
  \/ NextDay

SpecQuota == Init /\ [][NextQuota]_vars

\* ------------------------------------------------------------- properties
NoOpenLease == \A w \in Workers : wk[w].pc # "lease_tx"

\* the rows handed to the workers that called in the round
RoundLeased == {round.got[w] : w \in round.called} \ {NoJob}

\* C1: when M workers call lease_next concurrently while K rows are
\* eligible, no row is handed to two workers and, once every call has
\* returned, exactly min(M, K) distinct rows have been leased and are RUNNING
\* under the worker each was handed to.
C1_LeaseRound ==
  /\ \A w1, w2 \in Workers :
       (w1 # w2 /\ wk[w1].pc = "lease_tx" /\ wk[w2].pc = "lease_tx")
         => wk[w1].job # wk[w2].job
  /\ (round.active /\ NoOpenLease) =>
       /\ Cardinality(RoundLeased) = Min(Cardinality(round.called), round.K)
       /\ \A w1, w2 \in round.called :
            (w1 # w2 /\ round.got[w1] # NoJob) => round.got[w1] # round.got[w2]
       /\ \A w \in round.called :
            round.got[w] # NoJob =>
              /\ jobs[round.got[w]].status = RUNNING
              /\ jobs[round.got[w]].locked_by = w
              /\ jobs[round.got[w]].attempt_count = 1
       /\ Cardinality({j \in JobIds : jobs[j].status = RUNNING}) = Cardinality(RoundLeased)

\* two workers have called in a round with two eligible rows and each was
\* handed a row
C1_Witness ==
  /\ round.active /\ NoOpenLease
  /\ Cardinality(round.called) >= 2
  /\ round.K >= 2
  /\ Cardinality(RoundLeased) >= 2

\* C2: in every state of a job row, locked_at and locked_by are both
\* non-null exactly when status = RUNNING: a RUNNING row has both set, and
\* a row in any other status has both NULL.
C2_LockIffRunning ==
  \A j \in JobIds :
    Exists(j) =>
      /\ (jobs[j].locked_at # NoTime /\ jobs[j].locked_by # NoWorker)
            <=> jobs[j].status = RUNNING
      /\ jobs[j].status # RUNNING =>
            (jobs[j].locked_at = NoTime /\ jobs[j].locked_by = NoWorker)

\* a row that was leased and then requeued by mark_failed
C2_Witness ==
  \E j \in JobIds :
    /\ jobs[j].status = QUEUED
    /\ jobs[j].attempt_count >= 1
    /\ jobs[j].error_message \in Messages

\* C3: attempt_count <= max_attempts for every job in every state.
C3_AttemptBound ==
  \A j \in JobIds : Exists(j) => jobs[j].attempt_count <= jobs[j].max_attempts

\* C4: terminal states are absorbing: once a row is DONE, FAILED or
\* CANCELLED no step changes its status (so it is never leased again).
C4_TerminalAbsorbing ==
  [][\A j \in JobIds :
       jobs[j].status \in Terminal => jobs'[j].status = jobs[j].status]_vars

\* a step of a call worker w makes on the row it processes
StepOfWorker(w) ==
  \/ \E c \in ProgressCalls, ok \in BOOLEAN : UpdateProgress(w, c, ok)
  \/ \E r \in Results, ok \in BOOLEAN : MarkDone(w, r, ok)
  \/ \E ok \in BOOLEAN : MarkFailedWrite(w, ok)

\* C5: while a row is RUNNING with locked_by = w, a step changes the row
\* only if it is a call of worker w itself or a write of the stale-lock
\* sweep: no update_progress, mark_done or mark_failed of another worker
\* changes it.  (Whether the sweep's write comes after the TTL is left
\* aside here.)
C5_ExclusiveMutation ==
  [][\A j \in JobIds :
       (jobs[j].status = RUNNING /\ jobs'[j] # jobs[j]) =>
         \/ StepOfWorker(jobs[j].locked_by)
         \/ \E w \in Workers : SweepRelease(w, TRUE)]_vars

\* C6: a mark_done that reaches the store succeeds and leaves the row DONE
\* with the caller's result, whatever the row's status and locked_by were;
\* so of two workers marking the same job done the later one's result stays.
C6_MarkDoneUnconditional ==
  [][\A w \in Workers, r \in Results :
       MarkDone(w, r, TRUE) =>
         LET row == jobs'[wk[w].job] IN
         /\ ret'.ok
         /\ row.status = DONE /\ row.stage = "DONE" /\ row.progress = 100
         /\ row.transcript_text = r.transcript_text
         /\ row.segments_json = r.segments_json
         /\ row.language = r.language
         /\ row.duration_sec = r.duration_sec
         /\ row.model_version = r.model_version
         /\ row.locked_at = NoTime /\ row.locked_by = NoWorker
         /\ row.error_message = NoStr]_vars

\* a row already DONE while a worker that leased it earlier is still
\* processing it and has its own mark_done ahead
C6_Witness ==
  \E j \in JobIds, w \in Workers :
    /\ jobs[j].status = DONE
    /\ wk[w].pc = "processing" /\ wk[w].job = j

\* C7: minutes_used <= daily_limit in every state of a (user, date) row
\* under reserve calls.
C7_UsageWithinLimit ==
  \A k \in Users \X Days : usage[k].exists => usage[k].minutes_used <= DailyLimit

RECURSIVE SumMinutes(_, _)
SumMinutes(seq, k) == IF k = 0 THEN 0 ELSE seq[k].minutes + SumMinutes(seq, k - 1)

\* the length of the longest prefix whose minutes sum to at most the limit
PrefixLen(seq) ==
  CHOOSE k \in 0..Len(seq) :
    /\ SumMinutes(seq, k) <= DailyLimit
    /\ \A m \in 0..Len(seq) : SumMinutes(seq, m) <= DailyLimit => m <= k

AllowedCount(seq) == Cardinality({i \in 1..Len(seq) : seq[i].allowed})

AllReached(seq) == \A i \in 1..Len(seq) : seq[i].reached

\* C8 as stated: the number of allowed reservations of a day equals the
\* length of the longest prefix of the calls whose minutes sum to at most
\* daily_limit (calls that reached the store).
C8_AllowedEqualsPrefix ==
  AllReached(calls) => AllowedCount(calls) = PrefixLen(calls)

\* C8 amended: every reservation within the longest prefix whose minutes
\* sum to at most daily_limit is allowed, so at least that many are allowed.
C8_PrefixAllowed ==
  /\ \A i \in 1..PrefixLen(calls) : calls[i].allowed
  /\ AllowedCount(calls) >= PrefixLen(calls)

\* three calls reached the store and more were allowed than the prefix holds
C8_Witness ==
  /\ Len(calls) = MaxCalls
  /\ AllReached(calls)
  /\ PrefixLen(calls) >= 1
  /\ AllowedCount(calls) > PrefixLen(calls)

\* C9: minutes_used >= 0 for every (user, date) row after any reserve and
\* reconcile calls.
C9_UsageNonNegative ==
  \A k \in Users \X Days : usage[k].exists => usage[k].minutes_used >= 0

\* C10: a reserve call that is denied leaves minutes_used unchanged; one
\* that is allowed on an existing row adds exactly the requested minutes and
\* returns remaining = daily_limit - (new minutes_used).
C10_ReserveEffect ==
  [][\A m \in 1..MaxMinutes :
       Reserve(LoggedUser, m, "ok") =>
         /\ ~ret'.ok => MinutesUsed(LoggedUser, today)' = MinutesUsed(LoggedUser, today)
         /\ (ret'.ok /\ usage[<<LoggedUser, today>>].exists) =>
              /\ MinutesUsed(LoggedUser, today)' = MinutesUsed(LoggedUser, today) + m
              /\ ret'.val = DailyLimit - MinutesUsed(LoggedUser, today)']_vars

\* C11: whenever the store fails during reserve (the rpc call raises a
\* connection/timeout error or comes back with no data), reserve returns
\* allowed = true with a non-empty reason and minutes_used is not changed.
C11_OutageAllowedWithReason ==
  [][\A u \in Users, m \in 1..MaxMinutes, o \in {"error", "nodata"} :
       ReserveLogged(u, m, o) =>
         /\ ret'.ok
         /\ ret'.reason # NoStr
         /\ usage' = usage]_vars

\* --------------------------------------------- submission and reconciliation
Max(a, b) == IF a >= b THEN a ELSE b

\* ceil(d / n) for positive n
CeilDiv(d, n) == (d + n - 1) \div n

DEFAULT_ESTIMATED_MINUTES == 5

\* estimated_duration_sec values a request may carry (1..7200)
EstimatedSecs == {30, 60, 120, 300}

\* content lengths the storage may report, in units of half a megabyte
ContentLengths == 0..MaxHalfMb

\* create_transcription_job: estimated_minutes = max(1, estimated_duration_sec // 60)
ReservedMinutes(estimated_duration_sec) == Max(1, estimated_duration_sec \div 60)

\* _estimate_duration_minutes: max(1, int(content_length / BYTES_PER_MB)),
\* DEFAULT_ESTIMATED_MINUTES when the metadata cannot be read
EstimateDurationMinutes(content_length, meta_ok) ==
  IF meta_ok THEN Max(1, content_length \div 2) ELSE DEFAULT_ESTIMATED_MINUTES

\* _reconcile_quota: actual_minutes = int(actual_duration_sec / 60) + 1
ActualMinutes(actual_duration_sec) == (actual_duration_sec \div 60) + 1

\* create_transcription_job: reserve the estimated minutes, and enqueue the
\* job when the reservation is allowed (QuotaExceededError gives 429 otherwise)
CreateTranscriptionJob(u, estimated_duration_sec, priority) ==
  LET r == CheckAndReserveQuota(usage[<<u, today>>],
                                ReservedMinutes(estimated_duration_sec), DailyLimit)
      check == ParseQuotaResult(r.data, DailyLimit)
  IN
  /\ \E j \in JobIds : ~Exists(j)
  /\ usage' = [usage EXCEPT ![<<u, today>>] = r.row]
  /\ IF check.ok
       THEN /\ jobs' = [jobs EXCEPT ![FreshId] =
                          ApplyUpdate(ApplyUpdate(ApplyUpdate(AbsentRow, ColumnDefaults),
                                                  BuildJobData(u, priority)),
                                      [estimated_duration_sec |-> estimated_duration_sec])]
            /\ ret' = Ret(TRUE, FreshId, check.val)
       ELSE /\ UNCHANGED jobs
            /\ ret' = Ret(FALSE, NoJob, check.val)
  /\ UNCHANGED <<proc, now, today, wk, round, calls>>

\* _process_job, the end of a successful attempt: _save_transcription_results
\* (mark_done) and then _reconcile_quota with the estimate taken from the
\* object's size
ProcessJobSuccess(w, r, content_length, meta_ok) ==
  /\ wk[w].pc = "processing"
  /\ LET j == wk[w].job
         u == jobs[j].user_id
         diff == ActualMinutes(r.duration_sec)
                   - EstimateDurationMinutes(content_length, meta_ok)
     IN
     /\ ~RowLocked(j)
     /\ jobs' = [jobs EXCEPT ![j] = ApplyUpdate(@, MarkDoneUpdate(r, now))]
     /\ usage' = IF diff = 0 THEN usage
                 ELSE [usage EXCEPT ![<<u, today>>] = AdjustQuotaUsage(@, diff, FALSE)]
     /\ ret' = Ret(TRUE, j, 0)
  /\ wk' = [wk EXCEPT ![w] = Idle]
  /\ UNCHANGED <<proc, now, today, round, calls>>

\* SpecSubmit: jobs are submitted, leased and processed successfully at the
\* first attempt, all on one day
NextSubmit ==
  \/ \E u \in Users, s \in EstimatedSecs : CreateTranscriptionJob(u, s, DefaultPriority)
  \/ \E w \in Workers : LeaseBegin(w, TRUE)
  \/ \E w \in Workers : LeaseCommit(w)
  \/ \E w \in Workers, r \in Results, c \in ContentLengths, m \in BOOLEAN :
       ProcessJobSuccess(w, r, c, m)

SpecSubmit == Init /\ [][NextSubmit]_vars

\* C12: for a job submitted with estimated_duration_sec = s and processed
\* successfully once on the same day with measured duration d, the estimate
\* the worker passes to reconcile equals the minutes reserved at submission,
\* max(1, s // 60), so that reserve plus reconcile change the user's
\* minutes_used by ceil(d / 60) in total.
C12_ReconcileToMeasured ==
  [][\A w \in Workers, r \in Results, c \in ContentLengths, m \in BOOLEAN :
       ProcessJobSuccess(w, r, c, m) =>
         LET j == wk[w].job
             k == <<jobs[j].user_id, today>>
             reserved == ReservedMinutes(jobs[j].estimated_duration_sec)
         IN
         /\ EstimateDurationMinutes(c, m) = reserved
         /\ usage'[k].minutes_used
              = usage[k].minutes_used - reserved + CeilDiv(r.duration_sec, 60)]_vars

C14_MarkFailedAtomic ==
  [][\A w \in Workers :
       wk[w].pc = "mark_failed" =>
         LET j == wk[w].job IN
         /\ jobs'[j] # jobs[j] => MarkFailedWrite(w, TRUE)
         /\ (MarkFailedWrite(w, TRUE) /\ wk[w].update.status = QUEUED)
              => jobs[j].attempt_count < jobs[j].max_attempts]_vars

\* SpecExhaust: one job whose attempts all end in a retryable failure: the
\* workers lease it, report mark_failed(permanent = false) and run the
\* stale-lock sweep of their main loop; nobody marks it done or cancels it.
NextExhaust ==
  \/ \E u \in Users : now = 0 /\ EnqueueRow(u, DefaultPriority, TRUE)
  \/ \E w \in Workers : LeaseBegin(w, TRUE)
  \/ \E w \in Workers : LeaseCommit(w)
  \/ \E w \in Workers, m \in Messages : MarkFailedRead(w, m, FALSE, NoTime, TRUE)
  \/ \E w \in Workers : MarkFailedWrite(w, TRUE)
  \/ \E w \in Workers : SweepFind(w, TRUE)
  \/ \E w \in Workers : SweepRelease(w, TRUE)
  \/ TickRetry

SpecExhaust == Init /\ [][NextExhaust]_vars

\* C15: a job whose every attempt fails retryably is leased exactly
\* max_attempts times (each lease adds one to attempt_count, so
\* attempt_count never passes max_attempts); once mark_failed has made it
\* FAILED it has attempt_count = max_attempts, finished_at set and the
\* failure's message, and it is never leased again.
C15_ExhaustedRetries ==
  [][\A j \in JobIds :
       /\ \A w \in Workers :
            (LeaseCommit(w) /\ wk[w].job = j) =>
              /\ jobs'[j].attempt_count = jobs[j].attempt_count + 1
              /\ jobs'[j].attempt_count <= jobs'[j].max_attempts
       /\ (jobs'[j].status = FAILED /\ jobs'[j].error_message \in Messages) =>
            /\ jobs'[j].attempt_count = jobs'[j].max_attempts
            /\ jobs'[j].finished_at # NoTime
       /\ jobs[j].status = FAILED => jobs'[j].status = FAILED]_vars

\* C16: when a job's first attempt fails retryably (attempt_count = 1 after
\* the lease) mark_failed(permanent = false) requeues it with
\* next_attempt_at = now + 60 seconds (one minute of the clock); the
\* successive retry delays are 1, 2, 4, 8, ... minutes, the n-th being
\* 2^(n-1).
C16_BackoffSequence ==
  [][\A w \in Workers, msg \in Messages :
       MarkFailedRead(w, msg, FALSE, NoTime, TRUE) =>
         LET a == jobs[wk[w].job].attempt_count
             u == wk'[w].update
         IN
         u.status = QUEUED =>
           /\ a = 1 => u.next_attempt_at = now + 1
           /\ u.next_attempt_at = now + Pow2(a - 1)]_vars

\* C17: release_stale_locks(ttl) changes exactly the rows with status =
\* RUNNING and locked_at < now - ttl, and treats each as mark_failed would:
\* with attempt_count < max_attempts the row becomes QUEUED with stage
\* QUEUED, progress 0, the lock cleared, attempt_count unchanged and
\* next_attempt_at = now + 2^attempt_count minutes; with attempt_count >=
\* max_attempts it becomes FAILED with stage FAILED and finished_at set.
\* Every other row is unchanged.
C17_StaleReleasePolicy ==
  [][\A w \in Workers :
       SweepRelease(w, TRUE) =>
         \A j \in JobIds :
           jobs'[j] # jobs[j] =>
             /\ jobs[j].status = RUNNING
             /\ jobs[j].locked_at < now - LockTtl
             /\ jobs'[j].locked_at = NoTime /\ jobs'[j].locked_by = NoWorker
             /\ jobs'[j].attempt_count = jobs[j].attempt_count
             /\ IF jobs[j].attempt_count < jobs[j].max_attempts
                  THEN /\ jobs'[j].status = QUEUED
                       /\ jobs'[j].stage = "QUEUED"
                       /\ jobs'[j].progress = 0
                       /\ jobs'[j].next_attempt_at = now + Pow2(jobs[j].attempt_count)
                  ELSE /\ jobs'[j].status = FAILED
                       /\ jobs'[j].stage = "FAILED"
                       /\ jobs'[j].finished_at # NoTime]_vars

\* C18: a RUNNING job whose worker is alive and keeps its heartbeat fresh
\* (last_heartbeat_at within the TTL) is never picked for reclaim by
\* release_stale_locks, however long it has been running.
C18_HealthyNotReclaimed ==
  [][\A w \in Workers :
       SweepFind(w, TRUE) =>
         \A job \in wk'[w].stale :
           LET row == jobs[job.job_id] IN
           ~ /\ row.status = RUNNING
             /\ wk[row.locked_by].pc = "processing"
             /\ wk[row.locked_by].job = job.job_id
             /\ row.last_heartbeat_at >= now - LockTtl]_vars

\* ------------------------------------------------------ crash and recovery
\* a worker process dies while it processes a job: it makes no further call
\* (one process at least keeps running)
Crash(w) ==
  /\ wk[w].pc = "processing"
  /\ \A v \in Workers : wk[v].pc # "crashed"
  /\ wk' = [wk EXCEPT ![w].pc = "crashed"]
  /\ UNCHANGED <<proc, jobs, usage, now, today, ret, round, calls>>

\* the end of an attempt of a running worker: _process_job returns through
\* mark_done or mark_failed
FinishAttempt(w) ==
  \/ \E r \in Results : MarkDone(w, r, TRUE)
  \/ \E m \in Messages, p \in BOOLEAN : MarkFailedRead(w, m, p, NoTime, TRUE)

\* SpecCrash: one job, workers that lease, finish, sweep and may crash; the
\* store answers every call.  A running worker's main loop keeps sweeping
\* and polling, a started call returns, an attempt ends, and time passes.
NextCrash ==
  \/ \E u \in Users : now = 0 /\ EnqueueRow(u, DefaultPriority, TRUE)
  \/ \E w \in Workers : LeaseBegin(w, TRUE)
  \/ \E w \in Workers : LeaseCommit(w)
  \/ \E w \in Workers : FinishAttempt(w)
  \/ \E w \in Workers : MarkFailedWrite(w, TRUE)
  \/ \E w \in Workers : SweepFind(w, TRUE)
  \/ \E w \in Workers : SweepRelease(w, TRUE)
  \/ \E w \in Workers : Crash(w)
  \/ Tick

FairCrash ==
  /\ WF_vars(Tick)
  /\ \A w \in Workers :
       /\ WF_vars(LeaseBegin(w, TRUE))
       /\ WF_vars(LeaseCommit(w))
       /\ WF_vars(FinishAttempt(w))
       /\ WF_vars(MarkFailedWrite(w, TRUE))
       /\ WF_vars(SweepFind(w, TRUE))
       /\ WF_vars(SweepRelease(w, TRUE))

SpecCrash == Init /\ [][NextCrash]_vars /\ FairCrash

\* the last reading of the clock
LastReading == MaxTime - (MaxTime % TimeStep)

\* C19: forward progress after a crash: a job left RUNNING by a crashed
\* worker eventually leaves RUNNING (requeued, or FAILED when its budget is
\* spent), and a requeued job does not stay QUEUED: it is eventually leased
\* again (or ended by a late write of a worker that leased it before), as
\* long as one worker keeps running its main loop.  (Within the clock of
\* the model: the lease expires, and the retry is due, by the last reading;
\* a second sweep's write may put the retry off beyond it.)
C19_ForwardProgress ==
  \A j \in JobIds :
    /\ \A w \in Workers :
         (/\ wk[w].pc = "crashed" /\ wk[w].job = j
          /\ jobs[j].status = RUNNING /\ jobs[j].locked_by = w
          /\ jobs[j].locked_at < LastReading - LockTtl)
           ~> (jobs[j].status # RUNNING \/ jobs[j].locked_by # w)
    /\ (/\ jobs[j].status = QUEUED
        /\ \E w \in Workers : wk[w].pc = "crashed" /\ wk[w].job = j
        /\ jobs[j].next_attempt_at <= LastReading)
         ~> (jobs[j].status # QUEUED \/ jobs[j].next_attempt_at > LastReading)

\* the job of a crashed worker has been requeued by the sweep and leased by
\* another worker
C19_Witness ==
  \E j \in JobIds, w \in Workers :
    /\ wk[w].pc = "crashed" /\ wk[w].job = j
    /\ jobs[j].status = RUNNING /\ jobs[j].locked_by # w
    /\ jobs[j].attempt_count >= 2

\* C20: cancel(job_id, user_id) changes a row only when the row is owned by
\* user_id and QUEUED: it then sets status = CANCELLED and finished_at, and
\* nothing else, and returns true; for every other status and for a
\* non-owner it returns false and leaves every field unchanged; and no
\* other operation makes a row CANCELLED.
C20_CancelFrame ==
  [][\A j \in JobIds :
       /\ \A u \in Users :
            Cancel(u, j, TRUE) =>
              IF jobs[j].user_id = u /\ jobs[j].status = QUEUED
                THEN /\ jobs' = [jobs EXCEPT ![j] =
                                   [@ EXCEPT !.status = CANCELLED, !.finished_at = now]]
                     /\ ret'.ok
                ELSE /\ jobs' = jobs
                     /\ ~ret'.ok
       /\ (jobs'[j].status = CANCELLED /\ jobs[j].status # CANCELLED) =>
            \E u \in Users : Cancel(u, j, TRUE) /\ jobs[j].user_id = u]_vars

\* a job that was leased, requeued and then cancelled by its owner
C20_Witness ==
  \E j \in JobIds :
    /\ jobs[j].status = CANCELLED
    /\ jobs[j].attempt_count >= 1
    /\ jobs[j].finished_at # NoTime
    /\ ret.ok /\ ret.job = j

\* ------------------------------------------------------- cancel against lease
\* SpecCancelRace: users submit and cancel jobs while workers poll; every
\* call reaches the store and the calls interleave freely.
NextCancelRace ==
  \/ \E u \in Users, p \in 0..MaxPriority : Enqueue(u, p, TRUE)
  \/ \E u \in Users, j \in JobIds : Cancel(u, j, TRUE)
  \/ \E w \in Workers : LeaseBegin(w, TRUE)
  \/ \E w \in Workers : LeaseCommit(w)

SpecCancelRace == Init /\ [][NextCancelRace]_vars

\* C21: when a user's cancel and a worker's lease_next race on the same
\* QUEUED job exactly one takes effect: a CANCELLED job has no lock, is
\* not in the hands of any worker and is never returned by lease_next; a
\* cancel that meets the job leased (RUNNING) returns false and changes
\* nothing.
C21_CancelOrLease ==
  [][\A j \in JobIds :
       /\ jobs'[j].status = CANCELLED =>
            /\ jobs'[j].locked_at = NoTime /\ jobs'[j].locked_by = NoWorker
            /\ \A w \in Workers : wk'[w].job # j
       /\ jobs[j].status = CANCELLED =>
            /\ jobs'[j].status = CANCELLED
            /\ \A w \in Workers : LeaseCommit(w) => ret'.job # j
       /\ \A u \in Users :
            (Cancel(u, j, TRUE) /\ jobs[j].status = RUNNING) =>
              (jobs' = jobs /\ ~ret'.ok)]_vars

\* the owner's cancel came after the lease: it returned false and the job
\* is RUNNING in the hands of the worker
C21_Witness ==
  \E j \in JobIds, w \in Workers :
    /\ jobs[j].status = RUNNING /\ jobs[j].locked_by = w
    /\ wk[w].pc = "processing" /\ wk[w].job = j
    /\ ~ret.ok /\ ret.job = j
    /\ \E i \in JobIds : jobs[i].status = CANCELLED

\* the fields of a row a reader of the job observes
ObservableFields ==
  {"status", "stage", "progress", "transcript_text", "segments_json", "language",
   "duration_sec", "model_version", "locked_at", "locked_by", "error_message",
   "finished_at"}

\* the row is DONE with result r
DoneWith(row, r) ==
  /\ row.status = DONE
  /\ row.transcript_text = r.transcript_text
  /\ row.segments_json = r.segments_json
  /\ row.language = r.language
  /\ row.duration_sec = r.duration_sec
  /\ row.model_version = r.model_version

\* C22: mark_done is idempotent: applied a second time with the same result
\* to a row that is already DONE with that result, it changes none of the
\* row's observable fields (status, stage, progress, result fields, lock
\* fields, error_message, finished_at).
C22_MarkDoneIdempotent ==
  [][\A w \in Workers, r \in Results :
       (MarkDone(w, r, TRUE) /\ DoneWith(jobs[wk[w].job], r)) =>
         \A f \in ObservableFields : jobs'[wk[w].job][f] = jobs[wk[w].job][f]]_vars

\* C23: in every state a job's terminal result fields (transcript_text,
\* segments_json, language, model_version) are all non-null exactly when
\* status = DONE, and a DONE row has finished_at set and error_message null.
C23_ResultIffDone ==
  \A j \in JobIds :
    Exists(j) =>
      /\ (/\ jobs[j].transcript_text # NoStr /\ jobs[j].segments_json # NoStr
          /\ jobs[j].language # NoStr /\ jobs[j].model_version # NoStr)
           <=> jobs[j].status = DONE
      /\ jobs[j].status = DONE =>
           (jobs[j].finished_at # NoTime /\ jobs[j].error_message = NoStr)

\* ------------------------------------------------------ progress reporting
\* the ends of the segments the engine reports, in seconds, and what ffprobe
\* measures (0: no duration could be probed)
SegmentEnds == {15, 30, 60}
ProbedDurations == {0, 60}

\* _determine_total_duration_seconds: the job's estimated_duration_sec when
\* positive, else the probed duration when there is one, else the estimated
\* minutes in seconds
DetermineTotalDurationSeconds(estimated_duration_sec, probed, estimated_minutes) ==
  IF estimated_duration_sec # NoInt /\ estimated_duration_sec > 0
    THEN estimated_duration_sec
    ELSE IF probed # 0 THEN probed
    ELSE Max(estimated_minutes, 1) * 60

\* ProgressReporter.__init__: total_duration_sec is max(total, 1) if total
\* is given and not zero, else None
ReporterTotal(total_duration_sec) ==
  IF total_duration_sec = NoInt \/ total_duration_sec = 0 THEN NoInt
  ELSE Max(total_duration_sec, 1)

\* on_segment_processed: min(99.0, processed_seconds / total * 100)
ProgressValue(processed_seconds, total_duration_sec) ==
  Min(99, (processed_seconds * 100) \div total_duration_sec)

\* one update_job_progress call of worker w on its job: the row after it and
\* what the call returned
WriteProgress(w, c, ok) ==
  LET j == wk[w].job IN
  /\ ~RowLocked(j)
  /\ IF ok
       THEN /\ jobs' = [jobs EXCEPT ![j] = ApplyUpdate(@, ProgressUpdate(c, now))]
            /\ ret' = Ret(Exists(j), j, 0)
       ELSE /\ UNCHANGED jobs
            /\ ret' = Ret(FALSE, j, 0)

\* object keys are sequences of tokens: "/", "." and " " stand for those
\* characters, every other token is a piece of a name free of them
UserName(u) == ToString(u)

\* f"users/{user_id}/"
UserPrefix(u) == <<"users", "/", UserName(u), "/">>

ObjectKeys ==
  {<<>>, <<" ">>, <<"/">>, <<"a">>, <<".", "a">>}
  \cup UNION { { UserPrefix(u) \o <<"a">>, UserPrefix(u) \o <<".", "a">>,
                 UserPrefix(u) \o <<".", ".", "/", "a">>,
                 UserPrefix(u) \o <<"a", ".", ".", "a">>,
                 UserPrefix(u) } : u \in Users }

\* str.startswith answering yes for every key
StartsWithAlways(key, prefix) == TRUE

\* str.startswith
StartsWith(key, prefix) ==
  Len(key) >= Len(prefix) /\ SubSeq(key, 1, Len(prefix)) = prefix

\* not key.strip(): nothing but white space
IsBlank(key) == \A i \in 1..Len(key) : key[i] = " "

\* the parts of PurePosixPath(key): the runs between slashes, the empty ones
\* and the "." ones dropped, each as the pair of its first and last index
PathParts(key) ==
  { ab \in (1..Len(key)) \X (1..Len(key)) :
      /\ ab[1] <= ab[2]
      /\ \A i \in ab[1]..ab[2] : key[i] # "/"
      /\ ab[1] = 1 \/ key[ab[1] - 1] = "/"
      /\ ab[2] = Len(key) \/ key[ab[2] + 1] = "/"
      /\ SubSeq(key, ab[1], ab[2]) # <<".">> }

\* PurePosixPath(key).name: the last part, empty when there is none
PathName(key) ==
  IF PathParts(key) = {} THEN <<>>
  ELSE LET last == CHOOSE ab \in PathParts(key) :
                     \A cd \in PathParts(key) : cd[1] <= ab[1]
       IN SubSeq(key, last[1], last[2])

\* ".." in key
HasDotDot(key) == \E i \in 1..(Len(key) - 1) : key[i] = "." /\ key[i + 1] = "."

\* _validate_object_key accepting every key
ValidObjectKeyAlways(object_key) == TRUE

\* _validate_object_key: TRUE when the key is returned, FALSE when
\* InvalidObjectKeyError is raised
ValidObjectKey(object_key) ==
  /\ ~(object_key = <<>> \/ IsBlank(object_key))
  /\ PathName(object_key) # <<>>
  /\ Head(PathName(object_key)) # "."
  /\ ~HasDotDot(object_key)

\* enqueue_transcription_job with the object key written to the row
EnqueueObject(u, object_key, ok) ==
  /\ \A j \in JobIds : ~Exists(j)
  /\ IF ok
       THEN /\ jobs' = [jobs EXCEPT ![FreshId] =
                          ApplyUpdate(ApplyUpdate(ApplyUpdate(AbsentRow, ColumnDefaults),
                                                  BuildJobData(u, DefaultPriority)),
                                      [object_key |-> object_key])]
            /\ ret' = Ret(TRUE, FreshId, 0)
       ELSE /\ UNCHANGED jobs
            /\ ret' = Ret(FALSE, NoJob, 0)
  /\ UNCHANGED <<proc, usage, now, today, wk, round, calls>>

\* the exceptions per-job processing may meet: the classified ones, the
\* StorageError of the storage provider, and any other exception
Errors ==
  { [kind |-> "InvalidObjectKeyError", retryable |-> FALSE],
    [kind |-> "InvalidMediaError", retryable |-> FALSE],
    [kind |-> "TranscriptionProcessingError", retryable |-> TRUE],
    [kind |-> "TranscriptionProcessingError", retryable |-> FALSE],
    [kind |-> "StorageDownloadError", retryable |-> FALSE],
    [kind |-> "StorageTimeoutError", retryable |-> FALSE],
    [kind |-> "StorageError", retryable |-> FALSE],
    [kind |-> "Exception", retryable |-> FALSE] }

Error(kind) == [kind |-> kind, retryable |-> FALSE]

\* str(error)
ErrorMessage(e) == e.kind

\* _handle_permanent_failure: mark_failed(permanent=True)
HandlePermanentFailure(w, error_message, ok) ==
  MarkFailedRead(w, error_message, TRUE, NoTime, ok)

\* _handle_retryable_failure: mark_failed(permanent=False)
HandleRetryableFailure(w, error_message, ok) ==
  MarkFailedRead(w, error_message, FALSE, NoTime, ok)

\* _handle_processing_error with the test on retryable inverted
HandleProcessingErrorInverted(w, e, ok) ==
  IF e.retryable THEN HandlePermanentFailure(w, ErrorMessage(e), ok)
  ELSE HandleRetryableFailure(w, ErrorMessage(e), ok)

\* _handle_processing_error
HandleProcessingError(w, e, ok) ==
  IF e.retryable THEN HandleRetryableFailure(w, ErrorMessage(e), ok)
  ELSE HandlePermanentFailure(w, ErrorMessage(e), ok)

\* an exception no except clause of _process_job names: after the finally
\* block it leaves _process_job, _run_main_loop and start, and the worker
\* process ends with the job still leased
Escapes(w) ==
  /\ wk' = [wk EXCEPT ![w].pc = "crashed"]
  /\ UNCHANGED <<proc, jobs, usage, now, today, ret, round, calls>>

\* the except clauses of _process_job, for exception e raised in the try block
ProcessJobExcept(w, e, ok) ==
  CASE e.kind = "InvalidMediaError" -> HandlePermanentFailure(w, ErrorMessage(e), ok)
    [] e.kind = "TranscriptionProcessingError" -> HandleProcessingError(w, e, ok)
    [] e.kind \in {"StorageDownloadError", "StorageTimeoutError"} ->
         HandleRetryableFailure(w, ErrorMessage(e), ok)
    [] e.kind = "InvalidObjectKeyError" -> HandlePermanentFailure(w, ErrorMessage(e), ok)
    [] OTHER -> Escapes(w)

\* what a download may come to: done; the object is not there (404 or
\* NoSuchKey) or another client error, both raised as StorageError by
\* download_to_path; the download error and the timeout the worker's except
\* clause names
DownloadOutcomes == {"ok", "not_found", "client_error", "download_error", "timeout"}

\* the exception a failed download raises
DownloadRaises(outcome) ==
  CASE outcome \in {"not_found", "client_error"} -> Error("StorageError")
    [] outcome = "download_error" -> Error("StorageDownloadError")
    [] OTHER -> Error("StorageTimeoutError")

\* _mark_job_started: stage DOWNLOADING, progress 0 and a heartbeat
MarkJobStarted(w, ok) ==
  /\ wk[w].pc = "processing" /\ wk[w].step = "start"
  /\ WriteProgress(w, [stage |-> "DOWNLOADING", progress |-> 0, hb |-> TRUE], ok)
  /\ wk' = [wk EXCEPT ![w].step = "download"]
  /\ UNCHANGED <<proc, usage, now, today, round, calls>>

\* _process_job: _validate_object_key, then _download_media_file
DownloadMediaFile(w, outcome, ok) ==
  /\ wk[w].pc = "processing" /\ wk[w].step = "download"
  /\ IF ~ValidObjectKey(jobs[wk[w].job].object_key)
       THEN ProcessJobExcept(w, Error("InvalidObjectKeyError"), ok)
       ELSE IF outcome = "ok"
         THEN /\ wk' = [wk EXCEPT ![w].step = "downloaded"]
              /\ UNCHANGED <<proc, jobs, usage, now, today, ret, round, calls>>
         ELSE ProcessJobExcept(w, DownloadRaises(outcome), ok)

\* _process_job after the download: _update_job_stage(TRANSCRIBING), then the
\* ProgressReporter is made with the total duration
StartTranscribing(w, probed, content_length, meta_ok, ok) ==
  /\ wk[w].pc = "processing" /\ wk[w].step = "downloaded"
  /\ WriteProgress(w, [stage |-> "TRANSCRIBING", progress |-> NoInt, hb |-> TRUE], ok)
  /\ wk' = [wk EXCEPT ![w].step = "transcribe",
                      ![w].processed_seconds = 0,
                      ![w].total_duration_sec =
                        ReporterTotal(DetermineTotalDurationSeconds(
                          jobs[wk[w].job].estimated_duration_sec, probed,
                          EstimateDurationMinutes(content_length, meta_ok)))]
  /\ UNCHANGED <<proc, usage, now, today, round, calls>>

\* ProgressReporter.on_segment_processed: the furthest segment end is kept;
\* when neither a progress write nor a heartbeat is due nothing is written
OnSegmentProcessed(w, segment_end, progress_due, heartbeat_due, ok) ==
  /\ wk[w].pc = "processing" /\ wk[w].step = "transcribe"
  /\ LET processed == Max(wk[w].processed_seconds, segment_end)
         total == wk[w].total_duration_sec
         progress_value == IF progress_due /\ total # NoInt
                             THEN ProgressValue(processed, total) ELSE NoInt
     IN
     /\ wk' = [wk EXCEPT ![w].processed_seconds = processed]
     /\ IF ~progress_due /\ ~heartbeat_due
          THEN UNCHANGED <<proc, jobs, ret>>
          ELSE WriteProgress(w, [stage |-> NoStr, progress |-> progress_value,
                                 hb |-> heartbeat_due], ok)
  /\ UNCHANGED <<proc, usage, now, today, round, calls>>

\* _process_job after the engine returned: _update_job_stage(FINALIZING)
StartFinalizing(w, ok) ==
  /\ wk[w].pc = "processing" /\ wk[w].step = "transcribe"
  /\ WriteProgress(w, [stage |-> "FINALIZING", progress |-> NoInt, hb |-> TRUE], ok)
  /\ wk' = [wk EXCEPT ![w].step = "finalize"]
  /\ UNCHANGED <<proc, usage, now, today, round, calls>>

\* _save_transcription_results: mark_done with the engine's result
SaveTranscriptionResults(w, r, ok) ==
  /\ wk[w].step = "finalize"
  /\ MarkDone(w, r, ok)

\* SpecProgress: one row is leased and processed stage by stage, with the
\* stale-lock sweep running beside the workers
NextProgress ==
  \/ \E u \in Users : EnqueueObject(u, UserPrefix(u) \o <<"a">>, TRUE)
  \/ \E w \in Workers : LeaseBegin(w, TRUE)
  \/ \E w \in Workers : LeaseCommit(w)
  \/ \E w \in Workers, ok \in BOOLEAN : MarkJobStarted(w, ok)
  \/ \E w \in Workers : DownloadMediaFile(w, "ok", TRUE)
  \/ \E w \in Workers, p \in ProbedDurations, ok \in BOOLEAN :
       StartTranscribing(w, p, 0, FALSE, ok)
  \/ \E w \in Workers, e \in SegmentEnds, pd \in BOOLEAN, hd \in BOOLEAN, ok \in BOOLEAN :
       OnSegmentProcessed(w, e, pd, hd, ok)
  \/ \E w \in Workers, ok \in BOOLEAN : StartFinalizing(w, ok)
  \/ \E w \in Workers, r \in Results, ok \in BOOLEAN : SaveTranscriptionResults(w, r, ok)
  \/ \E w \in Workers : SweepFind(w, TRUE)
  \/ \E w \in Workers : SweepRelease(w, TRUE)
  \/ Tick

SpecProgress == Init /\ [][NextProgress]_vars

\* C24: within a single lease of a job (the row RUNNING under the same
\* locked_by and locked_at) the values of progress stored in the row never
\* decrease and lie in [0, 100]; a write that leaves the row RUNNING stores
\* at most 99, a step that stores 100 is a mark_done, and a lease that ends
\* DONE ends with progress = 100.
C24_ProgressMonotone ==
  [][\A j \in JobIds :
       /\ (/\ jobs[j].status = RUNNING /\ jobs'[j].status = RUNNING
           /\ jobs'[j].locked_by = jobs[j].locked_by
           /\ jobs'[j].locked_at = jobs[j].locked_at) =>
            /\ jobs'[j].progress >= jobs[j].progress
            /\ jobs'[j].progress \in 0..99
       /\ (jobs'[j].progress = 100 /\ jobs[j].progress # 100) =>
            \E w \in Workers, r \in Results : MarkDone(w, r, TRUE)
       /\ (jobs[j].status = RUNNING /\ jobs'[j].status = DONE) =>
            jobs'[j].progress = 100]_vars

\* ------------------------------------------------------ per-job processing
\* the exceptions the engine may raise out of pipeline.transcribe
EngineErrors ==
  {e \in Errors : e.kind \in {"InvalidMediaError", "TranscriptionProcessingError",
                              "Exception"}}

\* _execute_transcription raising e
ExecuteTranscriptionRaises(w, e, ok) ==
  /\ wk[w].pc = "processing" /\ wk[w].step = "transcribe"
  /\ ProcessJobExcept(w, e, ok)

\* _process_job, its last two calls: _save_transcription_results and
\* _reconcile_quota
FinishJob(w, r, content_length, meta_ok) ==
  /\ wk[w].step = "finalize"
  /\ ProcessJobSuccess(w, r, content_length, meta_ok)

\* SpecWorker: one job with any object key is leased and processed step by
\* step; the download and the engine may fail in every way
NextWorker ==
  \/ \E u \in Users, k \in ObjectKeys : EnqueueObject(u, k, TRUE)
  \/ \E w \in Workers : LeaseBegin(w, TRUE)
  \/ \E w \in Workers : LeaseCommit(w)
  \/ \E w \in Workers : MarkJobStarted(w, TRUE)
  \/ \E w \in Workers, o \in DownloadOutcomes, ok \in BOOLEAN : DownloadMediaFile(w, o, ok)
  \/ \E w \in Workers : StartTranscribing(w, 0, 0, FALSE, TRUE)
  \/ \E w \in Workers, e \in EngineErrors, ok \in BOOLEAN :
       ExecuteTranscriptionRaises(w, e, ok)
  \/ \E w \in Workers : StartFinalizing(w, TRUE)
  \/ \E w \in Workers, r \in Results : FinishJob(w, r, 0, FALSE)
  \/ \E w \in Workers, ok \in BOOLEAN : MarkFailedWrite(w, ok)
  \/ Tick

SpecWorker == Init /\ [][NextWorker]_vars

\* the step is worker w meeting exception e while it processes its job
Raises(w, e) ==
  /\ wk[w].pc = "processing"
  /\ \/ /\ e.kind = "InvalidObjectKeyError"
        /\ ~ValidObjectKey(jobs[wk[w].job].object_key)
        /\ \E o \in DownloadOutcomes, ok \in BOOLEAN : DownloadMediaFile(w, o, ok)
     \/ /\ ValidObjectKey(jobs[wk[w].job].object_key)
        /\ \E o \in DownloadOutcomes \ {"ok"}, ok \in BOOLEAN :
             e = DownloadRaises(o) /\ DownloadMediaFile(w, o, ok)
     \/ /\ e \in EngineErrors
        /\ \E ok \in BOOLEAN : ExecuteTranscriptionRaises(w, e, ok)

\* the step is a mark_failed call of w with the given permanent flag
CallsMarkFailed(w, e, permanent) ==
  \E ok \in BOOLEAN : MarkFailedRead(w, ErrorMessage(e), permanent, NoTime, ok)

ClassifiedErrors == {e \in Errors : e.kind \notin {"StorageError", "Exception"}}

\* the permanent flag expected for each classified error
ExpectedPermanent(e) ==
  \/ e.kind \in {"InvalidObjectKeyError", "InvalidMediaError"}
  \/ e.kind = "TranscriptionProcessingError" /\ ~e.retryable

\* C25: for each classified error raised while a job is processed the worker
\* makes exactly one mark_failed call, and no mark_done and no reconcile call:
\* the step that meets the error is the mark_failed call, with permanent =
\* true for an invalid object key, invalid media and an engine error with
\* retryable = false, and permanent = false for an engine error with
\* retryable = true, a download failure and a download timeout; the row's
\* result and the usage are untouched, and the attempt ends with that call.
C25_ClassifiedErrors ==
  [][\A w \in Workers :
       /\ \A e \in ClassifiedErrors :
            Raises(w, e) =>
              /\ CallsMarkFailed(w, e, ExpectedPermanent(e))
              /\ jobs' = jobs /\ usage' = usage
       /\ (wk[w].pc = "mark_failed" /\ wk'[w] # wk[w]) =>
            /\ \E ok \in BOOLEAN : MarkFailedWrite(w, ok)
            /\ wk'[w] = Idle /\ usage' = usage
            /\ jobs'[wk[w].job].status # DONE]_vars

\* a first attempt met invalid media and the job is FAILED for good, with
\* attempts left
C25_Witness ==
  \E j \in JobIds :
    /\ jobs[j].status = FAILED /\ jobs[j].error_message = "InvalidMediaError"
    /\ jobs[j].attempt_count = 1 /\ jobs[j].attempt_count < jobs[j].max_attempts
    /\ \A w \in Workers : wk[w].pc = "idle"

\* C26: no exception escapes the per-job block: an error that is not one of
\* the classified kinds (a storage error that is neither a download error nor
\* a timeout, any other exception) ends in mark_failed(permanent = false) and
\* the worker's main loop goes on.
C26_NoEscape ==
  [][\A w \in Workers, e \in Errors \ ClassifiedErrors :
       Raises(w, e) =>
         /\ CallsMarkFailed(w, e, FALSE)
         /\ wk'[w].pc # "crashed"]_vars

\* C27: a download that fails because the object is not there (404-like)
\* makes the job fail permanently; a transient download error or a timeout
\* is retryable.
C27_DownloadClassified ==
  [][\A w \in Workers, ok \in BOOLEAN :
       (wk[w].pc = "processing" /\ ValidObjectKey(jobs[wk[w].job].object_key)) =>
         /\ DownloadMediaFile(w, "not_found", ok) =>
              CallsMarkFailed(w, DownloadRaises("not_found"), TRUE)
         /\ \A o \in {"download_error", "timeout"} :
              DownloadMediaFile(w, o, ok) =>
                CallsMarkFailed(w, DownloadRaises(o), FALSE)]_vars

\* the key conditions of the worker's contract: not empty, no "..", a final
\* component that does not start with ".", and under the owner's prefix
KeyAcceptable(object_key, user_id) ==
  /\ object_key # <<>>
  /\ ~HasDotDot(object_key)
  /\ PathName(object_key) # <<>> => Head(PathName(object_key)) # "."
  /\ StartsWith(object_key, UserPrefix(user_id))

\* C28: the worker never downloads media for a leased job whose object_key
\* is empty, contains "..", has a final component starting with ".", or does
\* not begin with users/{job.user_id}/: the step that would download is a
\* mark_failed(permanent = true) call instead.
C28_KeyValidated ==
  [][\A w \in Workers :
       (/\ wk[w].pc = "processing"
        /\ ~KeyAcceptable(jobs[wk[w].job].object_key, jobs[wk[w].job].user_id)
        /\ \E o \in DownloadOutcomes, ok \in BOOLEAN : DownloadMediaFile(w, o, ok)) =>
         CallsMarkFailed(w, Error("InvalidObjectKeyError"), TRUE)]_vars

\* ------------------------------------------------------ submission in full
\* the response of POST /jobs, with the request it answers: the status code,
\* the job created, and the minutes_remaining a quota refusal carries
Response(request, status_code, job, minutes_remaining) ==
  [ok |-> status_code = 201, job |-> job, val |-> minutes_remaining, reason |-> NoStr,
   status_code |-> status_code, request |-> request]

\* the keys submitted: under either user's prefix, under none, empty
SubmittedKeys ==
  {<<>>, <<"a">>} \cup {UserPrefix(u) \o <<"a">> : u \in Users}

\* what storage.object_exists answers: the object is there, is not, or the
\* check fails with StorageError (or there is no storage at all)
ExistsOutcomes == {"yes", "no", "error"}
RpcOutcomes == {"ok", "error", "nodata"}

\* QuotaService.reserve_minutes: the QuotaCheck of check_and_reserve_minutes
\* for what the rpc call did
ReserveMinutes(row, minutes, outcome) ==
  CASE outcome = "ok" -> ParseQuotaResult(CheckAndReserveQuota(row, minutes, DailyLimit).data,
                                          DailyLimit)
    [] outcome = "error" -> DefaultQuotaCheck(DailyLimit, REASON_FAILED)
    [] OTHER -> DefaultQuotaCheck(DailyLimit, NoStr)

\* create_transcription_job, the whole handler: the ownership check of the
\* key (403), the existence check (400), the reservation (429 on
\* QuotaExceededError), the enqueue (500 when it raises), and 201
SubmitJob(u, object_key, estimated_duration_sec, exists, outcome, enq_ok) ==
  LET request == [caller |-> u, object_key |-> object_key,
                  estimated_duration_sec |-> estimated_duration_sec]
      minutes == ReservedMinutes(estimated_duration_sec)
      r == CheckAndReserveQuota(usage[<<u, today>>], minutes, DailyLimit)
      check == ReserveMinutes(usage[<<u, today>>], minutes, outcome)
      reserved == IF outcome = "ok" THEN [usage EXCEPT ![<<u, today>>] = r.row] ELSE usage
  IN
  /\ \E j \in JobIds : ~Exists(j)
  /\ IF ~StartsWith(object_key, UserPrefix(u))
       THEN /\ ret' = Response(request, 403, NoJob, 0)
            /\ UNCHANGED <<proc, jobs, usage>>
       ELSE IF exists = "no"
         THEN /\ ret' = Response(request, 400, NoJob, 0)
              /\ UNCHANGED <<proc, jobs, usage>>
         ELSE /\ usage' = reserved
              /\ IF ~check.ok
                   THEN /\ ret' = Response(request, 429, NoJob, check.val)
                        /\ UNCHANGED jobs
                   ELSE IF ~enq_ok
                     THEN /\ ret' = Response(request, 500, NoJob, 0)
                          /\ UNCHANGED jobs
                     ELSE /\ jobs' = [jobs EXCEPT ![FreshId] =
                                ApplyUpdate(ApplyUpdate(ApplyUpdate(AbsentRow, ColumnDefaults),
                                                        BuildJobData(u, DefaultPriority)),
                                            [estimated_duration_sec |-> estimated_duration_sec,
                                             object_key |-> object_key])]
                          /\ ret' = Response(request, 201, FreshId, check.val)
  /\ UNCHANGED <<proc, now, today, wk, round, calls>>

\* SpecSubmitKey: users submit jobs with any key and estimate, all on one day
NextSubmitKey ==
  \E u \in Users, k \in SubmittedKeys, s \in {30, 120},
     x \in ExistsOutcomes, o \in RpcOutcomes, e \in BOOLEAN :
    SubmitJob(u, k, s, x, o, e)

SpecSubmitKey == Init /\ [][NextSubmitKey]_vars

\* the key begins with users/{u}/
UnderUser(key, u) ==
  /\ Len(key) >= 4
  /\ key[1] = "users" /\ key[2] = "/" /\ key[3] = ToString(u) /\ key[4] = "/"

\* the step creates row j
Created(j) == ~Exists(j) /\ jobs'[j].status # ABSENT

NextOrder ==
  \/ \E p \in 0..MaxPriority : Enqueue(LoggedUser, p, TRUE)
  \/ \E w \in Workers : LeaseBegin(w, TRUE)
  \/ \E w \in Workers : LeaseCommit(w)
  \/ \E w \in Workers, m \in Messages : MarkFailedRead(w, m, FALSE, NoTime, TRUE)
  \/ \E w \in Workers : MarkFailedWrite(w, TRUE)
  \/ Tick

SpecOrder == Init /\ [][NextOrder]_vars

\* the rows a lease_next call at time t may take: QUEUED, due (no
\* next_attempt_at, or one not after t), and not in the hands of a lease
\* transaction still open
Leasable(t) ==
  {j \in JobIds : /\ jobs[j].status = QUEUED
                  /\ jobs[j].next_attempt_at = NoTime \/ jobs[j].next_attempt_at <= t
                  /\ \A v \in Workers : ~(wk[v].pc = "lease_tx" /\ wk[v].job = j)}

\* row a comes first: higher priority, then older, then the smaller id
ComesFirst(a, b) ==
  \/ jobs[a].priority > jobs[b].priority
  \/ jobs[a].priority = jobs[b].priority /\ jobs[a].created_at < jobs[b].created_at
  \/ /\ jobs[a].priority = jobs[b].priority /\ jobs[a].created_at = jobs[b].created_at
     /\ a < b

\* C30: lease_next(worker, now) returns none exactly when no row is QUEUED
\* with next_attempt_at NULL or <= now (a row due exactly now is eligible);
\* otherwise it leases the eligible row of highest priority, ties broken by
\* the oldest created_at and then by id; the row it hands back is RUNNING
\* under the caller and was never due later than the time of the call.
C30_LeaseOrder ==
  [][\A w \in Workers :
       /\ LeaseBegin(w, TRUE) =>
            IF Leasable(now) = {}
              THEN wk'[w].pc = "idle" /\ ~ret'.ok /\ ret'.job = NoJob
              ELSE /\ wk'[w].pc = "lease_tx"
                   /\ wk'[w].job \in Leasable(now)
                   /\ \A i \in Leasable(now) \ {wk'[w].job} : ComesFirst(wk'[w].job, i)
       /\ LeaseCommit(w) =>
            LET j == wk[w].job IN
            /\ ret'.ok /\ ret'.job = j
            /\ jobs'[j].status = RUNNING /\ jobs'[j].locked_by = w
            /\ jobs[j].next_attempt_at # NoTime =>
                 (jobs[j].next_attempt_at <= wk[w].p_now /\ wk[w].p_now <= now)]_vars

\* a requeued row due exactly at the time of the call was picked, ahead of a
\* row of lower priority that was due as well
C30_Witness ==
  \E w \in Workers, j \in JobIds, i \in JobIds :
    /\ wk[w].pc = "lease_tx" /\ wk[w].job = j /\ i # j
    /\ jobs[j].next_attempt_at = wk[w].p_now
    /\ jobs[i].status = QUEUED /\ jobs[i].next_attempt_at = NoTime
    /\ jobs[j].priority > jobs[i].priority

\* ------------------------------------------------- sweep against the others
\* C40: release_stale_locks never changes a row that is not RUNNING with an
\* expired lock at the moment of its write: when mark_done, mark_failed or a
\* new lease changed the row after the sweep selected it, the sweep's update
\* leaves the row as it finds it.
C40_SweepWritesStaleOnly ==
  [][\A w \in Workers, j \in JobIds :
       (SweepRelease(w, TRUE) /\ jobs'[j] # jobs[j]) =>
         /\ jobs[j].status = RUNNING
         /\ jobs[j].locked_at # NoTime
         /\ jobs[j].locked_at < now - LockTtl]_vars

\* C37: for every measured duration d >= 0 the actual minutes handed to the
\* final reconcile are ceil(d / 60), exact multiples of 60 and d = 0
\* included: said of the duration of every job that was processed to DONE.
C37_ActualIsCeil ==
  \A j \in JobIds :
    jobs[j].status = DONE =>
      ActualMinutes(jobs[j].duration_sec) = CeilDiv(jobs[j].duration_sec, 60)

\* ------------------------------------------------- a job's life and its quota
\* _process_job, its last two calls as the code makes them:
\* _save_transcription_results (mark_done, whose boolean result is only
\* logged) and then _reconcile_quota (confirm_actual_minutes: no rpc when
\* the difference is zero, an rpc error is logged).  Every rpc that adjusts
\* the usage is recorded in calls.
SaveAndReconcile(w, r, content_length, meta_ok, done_ok, rec_ok) ==
  /\ wk[w].pc = "processing" /\ wk[w].step = "finalize"
  /\ LET j == wk[w].job
         u == jobs[j].user_id
         diff == ActualMinutes(r.duration_sec)
                   - EstimateDurationMinutes(content_length, meta_ok)
     IN
     /\ ~RowLocked(j)
     /\ jobs' = IF done_ok
                  THEN [jobs EXCEPT ![j] = ApplyUpdate(@, MarkDoneUpdate(r, now))]
                  ELSE jobs
     /\ usage' = IF diff = 0 \/ ~rec_ok THEN usage
                 ELSE [usage EXCEPT ![<<u, today>>] = AdjustQuotaUsage(@, diff, FALSE)]
     /\ calls' = IF diff = 0 \/ ~rec_ok THEN calls
                 ELSE Append(calls, [op |-> "reconcile", job |-> j, delta |-> diff])
     /\ ret' = Ret(done_ok /\ Exists(j), j, 0)
     /\ proc' = [proc EXCEPT ![w].jobs_processed =
                   IF done_ok /\ Exists(j) THEN @ + 1 ELSE @]
  /\ wk' = [wk EXCEPT ![w] = Idle]
  /\ UNCHANGED <<now, today, round>>

\* cancel_job giving the job's reserved minutes back to its owner
CancelRefund(u, j, ok) ==
  /\ ~RowLocked(j)
  /\ IF ok /\ jobs[j].user_id = u /\ jobs[j].status = QUEUED
       THEN /\ jobs' = [jobs EXCEPT ![j] =
                          ApplyUpdate(@, [status |-> CANCELLED, finished_at |-> now])]
            /\ usage' = [usage EXCEPT ![<<u, today>>] =
                           AdjustQuotaUsage(@, 0 - ReservedMinutes(jobs[j].estimated_duration_sec),
                                            FALSE)]
            /\ ret' = Ret(TRUE, j, 0)
       ELSE /\ UNCHANGED <<proc, jobs, usage>>
            /\ ret' = Ret(FALSE, j, 0)
  /\ UNCHANGED <<proc, now, today, wk, round, calls>>

\* the owner's cancel request
CancelJob(u, j, ok) == Cancel(u, j, ok)

\* SpecLife: one job from its submission to its end: reserved and enqueued
\* (or the enqueue fails), cancelled, leased, processed step by step to
\* success or to a failure, swept when its lock is stale, leased again
NextLife ==
  \/ \E e \in BOOLEAN :
       /\ \A j \in JobIds : ~Exists(j)
       /\ SubmitJob(LoggedUser, UserPrefix(LoggedUser) \o <<"a">>, 120, "yes", "ok", e)
  \/ \E u \in Users, j \in JobIds : CancelJob(u, j, TRUE)
  \/ \E w \in Workers : LeaseBegin(w, TRUE)
  \/ \E w \in Workers : LeaseCommit(w)
  \/ \E w \in Workers : MarkJobStarted(w, TRUE)
  \/ \E w \in Workers, o \in {"ok", "timeout"} : DownloadMediaFile(w, o, TRUE)
  \/ \E w \in Workers : StartTranscribing(w, 0, 0, FALSE, TRUE)
  \/ \E w \in Workers, e \in EngineErrors \ {Error("Exception")} :
       ExecuteTranscriptionRaises(w, e, TRUE)
  \/ \E w \in Workers : StartFinalizing(w, TRUE)
  \/ \E w \in Workers, r \in Results, d \in BOOLEAN, c \in BOOLEAN :
       SaveAndReconcile(w, r, 0, FALSE, d, c)
  \/ \E w \in Workers : MarkFailedWrite(w, TRUE)
  \/ \E w \in Workers : SweepFind(w, TRUE)
  \/ \E w \in Workers : SweepRelease(w, TRUE)
  \/ Tick

SpecLife == Init /\ [][NextLife]_vars

\* the adjustments of the usage made for job j
Reconciles(j) ==
  {i \in 1..Len(calls) : calls[i].op = "reconcile" /\ calls[i].job = j}

\* C38: quota reconcile is applied at most once per job over all of its
\* attempts and all workers: the user's minutes_used is never adjusted twice
\* for the same job.
C38_ReconcileOnce == \A j \in JobIds : Cardinality(Reconciles(j)) <= 1

\* the step is a submission: create_transcription_job answered
SubmitStep ==
  \E u \in Users, s \in EstimatedSecs, x \in ExistsOutcomes, o \in RpcOutcomes,
     e \in BOOLEAN :
    SubmitJob(u, UserPrefix(u) \o <<"a">>, s, x, o, e)

\* the step is the end of a successful attempt: mark_done and reconcile
SuccessStep ==
  \E w \in Workers :
    /\ wk[w].pc = "processing" /\ wk[w].step = "finalize"
    /\ wk'[w] = Idle

\* C39: minutes_used changes only through reserve at submission and through
\* reconcile on the success path of _process_job: a mark_failed (retryable or
\* permanent), a cancel and a release_stale_locks leave every minutes_used
\* as it was, and so does every step that makes a job FAILED or CANCELLED; a
\* submission whose enqueue fails after an allowed reserve keeps the minutes
\* reserved.
C39_UsageFrame ==
  [][/\ usage' # usage => (SubmitStep \/ SuccessStep)
     /\ \A w \in Workers :
          (\/ wk[w].pc = "mark_failed" /\ wk'[w] # wk[w]
           \/ wk'[w].pc = "mark_failed" /\ wk[w].pc = "processing"
           \/ wk[w].pc = "sweep" /\ wk'[w] # wk[w]) => usage' = usage
     /\ \A u \in Users, j \in JobIds : CancelJob(u, j, TRUE) => usage' = usage
     /\ \A j \in JobIds :
          (jobs'[j].status \in {FAILED, CANCELLED} /\ jobs[j].status # jobs'[j].status)
            => usage' = usage
     /\ (/\ usage' # usage /\ "status_code" \in DOMAIN ret'
         /\ ret'.status_code = 500 /\ SubmitStep) =>
          LET q == ret'.request IN
          /\ jobs' = jobs
          /\ usage'[<<q.caller, today>>].exists
          /\ usage'[<<q.caller, today>>].minutes_used
               = MinutesUsed(q.caller, today) + Max(1, q.estimated_duration_sec \div 60)]_vars

\* a job has failed for good and the minutes reserved for it are still
\* counted against its owner
C39_Witness ==
  \E j \in JobIds :
    /\ jobs[j].status = FAILED
    /\ jobs[j].estimated_duration_sec # NoInt
    /\ MinutesUsed(jobs[j].user_id, today)
         = Max(1, jobs[j].estimated_duration_sec \div 60)


\* ------------------------------------------------- the worker's main loop
MaxJobsPerRun == 1         \* max_jobs_per_run of a run is 0..MaxJobsPerRun
EmptyShutdownMinutes == 1  \* empty_queue_shutdown_minutes

\* the steps below are local to one worker process: nothing of the store moves
Local == UNCHANGED <<jobs, usage, now, today, wk, ret, round, calls>>

\* start(): the signal handlers are installed, running = True, the loop begins
Start(w) ==
  /\ proc[w].at = "new"
  /\ proc' = [proc EXCEPT ![w].running = TRUE, ![w].at = "top"]
  /\ Local

\* _handle_shutdown_signal: SIGTERM or SIGINT, at any point of the run
HandleShutdownSignal(w) ==
  /\ proc[w].at \notin {"new", "exited"}
  /\ proc[w].running
  /\ proc' = [proc EXCEPT ![w].running = FALSE,
                          ![w].signalled_job = proc[w].current_job_id]
  /\ Local

\* while self.running: _process_main_loop_iteration, that is
\* _maybe_release_stale_locks; when the check is due it makes the first round
\* trip of release_stale_locks, and the releases follow before the fetch
ProcessMainLoopIteration(w, due) ==
  /\ proc[w].at = "top"
  /\ wk[w].pc = "idle"
  /\ IF ~proc[w].running
       THEN /\ proc' = [proc EXCEPT ![w].at = "exited"]
            /\ UNCHANGED <<wk, ret>>
       ELSE /\ proc' = [proc EXCEPT ![w].at = "fetch"]
            /\ LET stale == FindStaleJobs(now - LockTtl) IN
               IF due /\ stale # {}
                 THEN /\ wk' = [wk EXCEPT ![w] =
                                  [Idle EXCEPT !.pc = "sweep", !.stale = stale,
                                               !.count = Cardinality(stale)]]
                      /\ UNCHANGED ret
                 ELSE /\ UNCHANGED wk
                      /\ ret' = IF due THEN Ret(TRUE, NoJob, 0) ELSE ret
  /\ UNCHANGED <<jobs, usage, now, today, round, calls>>

\* _should_shutdown_on_empty_queue
ShouldShutdownOnEmptyQueue(self, t) ==
  IF ~self.shutdown_on_empty THEN FALSE
  ELSE IF self.last_job_time = NoTime THEN FALSE
  ELSE t - self.last_job_time > EmptyShutdownMinutes

\* _try_fetch_next_job returning None (no row is eligible, or the call
\* failed), and the else branch of the loop
FetchNone(w, ok) ==
  /\ proc[w].at = "fetch"
  /\ wk[w].pc = "idle"
  /\ ~ok \/ SelectSkipLocked(now) = NoJob
  /\ ret' = Ret(FALSE, NoJob, 0)
  /\ proc' = [proc EXCEPT
       ![w].empty_since = IF @ = NoTime THEN now ELSE @,
       ![w].at = IF ShouldShutdownOnEmptyQueue(proc[w], now) THEN "exited" ELSE "sleep"]
  /\ UNCHANGED <<jobs, usage, now, today, wk, round, calls>>

\* _try_fetch_next_job when a row is eligible: the lease, in its two steps
FetchBegin(w) ==
  /\ proc[w].at = "fetch"
  /\ SelectSkipLocked(now) # NoJob
  /\ LeaseBegin(w, TRUE)

\* if job: ... _process_job(job), up to the assignments of _mark_job_started
ProcessJobBegins(w) ==
  /\ proc[w].at = "fetch"
  /\ wk[w].pc = "processing"
  /\ proc[w].heartbeat \in {"none", "ended"}
  /\ proc' = [proc EXCEPT ![w].at = "job",
                          ![w].current_job_id = wk[w].job,
                          ![w].last_job_time = now,
                          ![w].temp_file_path = NoJob,
                          ![w].stop_event = FALSE,
                          ![w].heartbeat = "none",
                          ![w].heartbeat_job = NoJob,
                          ![w].joined = FALSE,
                          ![w].leased = @ + 1,
                          ![w].empty_since = NoTime]
  /\ Local

\* download_to_path creating the target file and writing into it
DownloadWrites(w) ==
  /\ proc[w].at = "job"
  /\ wk[w].pc = "processing" /\ wk[w].step = "download"
  /\ wk[w].job \notin proc[w].files
  /\ proc' = [proc EXCEPT ![w].files = @ \cup {wk[w].job}]
  /\ Local

\* _download_media_file returning or raising; it returns a complete file, and
\* an object that is not there has nothing written
DownloadEnds(w, outcome, ok) ==
  /\ proc[w].at = "job"
  /\ outcome = "ok" => wk[w].job \in proc[w].files
  /\ outcome = "not_found" => wk[w].job \notin proc[w].files
  /\ DownloadMediaFile(w, outcome, ok)

\* temp_file_path = self._download_media_file(...): the assignment
DownloadReturns(w) ==
  /\ proc[w].at = "job"
  /\ wk[w].pc = "processing" /\ wk[w].step = "downloaded"
  /\ proc[w].temp_file_path = NoJob
  /\ proc' = [proc EXCEPT ![w].temp_file_path = wk[w].job]
  /\ Local

\* the rest of the try block up to the ProgressReporter
BeginTranscribing(w) ==
  /\ proc[w].temp_file_path # NoJob
  /\ StartTranscribing(w, 0, 0, FALSE, TRUE)

\* _execute_transcription: heartbeat_thread.start()
StartHeartbeat(w) ==
  /\ proc[w].at = "job"
  /\ wk[w].pc = "processing" /\ wk[w].step = "transcribe"
  /\ proc[w].heartbeat = "none"
  /\ proc' = [proc EXCEPT ![w].heartbeat = "loop", ![w].heartbeat_job = wk[w].job]
  /\ Local

\* _heartbeat_loop: stop_event is not set, progress_reporter.heartbeat() is
\* called and sends its update
HeartbeatCall(w) ==
  /\ proc[w].heartbeat = "loop"
  /\ ~proc[w].stop_event
  /\ proc' = [proc EXCEPT ![w].heartbeat = "write"]
  /\ Local

\* ProgressReporter.heartbeat: update_job_progress(job_id, last_heartbeat_at)
\* reaching the store, then stop_event.wait
HeartbeatUpdate(t) == ProgressUpdate([stage |-> NoStr, progress |-> NoInt, hb |-> TRUE], t)

HeartbeatWrite(w, ok) ==
  /\ proc[w].heartbeat = "write"
  /\ LET j == proc[w].heartbeat_job IN
     /\ ~RowLocked(j)
     /\ IF ok
          THEN /\ jobs' = [jobs EXCEPT ![j] = ApplyUpdate(@, HeartbeatUpdate(now))]
               /\ ret' = Ret(Exists(j), j, 0)
          ELSE /\ UNCHANGED jobs
               /\ ret' = Ret(FALSE, j, 0)
  /\ proc' = [proc EXCEPT ![w].heartbeat = "loop"]
  /\ UNCHANGED <<usage, now, today, wk, round, calls>>

\* _heartbeat_loop: stop_event is set, the thread ends
HeartbeatEnds(w) ==
  /\ proc[w].heartbeat = "loop"
  /\ proc[w].stop_event
  /\ proc' = [proc EXCEPT ![w].heartbeat = "ended"]
  /\ Local

\* pipeline.transcribe has returned or raised: finally, stop_event.set()
StopHeartbeat(w) ==
  /\ proc[w].at = "job"
  /\ wk[w].pc = "processing" /\ wk[w].step = "transcribe"
  /\ proc[w].heartbeat # "none"
  /\ ~proc[w].stop_event
  /\ proc' = [proc EXCEPT ![w].stop_event = TRUE]
  /\ Local

\* heartbeat_thread.join(timeout=heartbeat_interval_seconds): it returns when
\* the thread has ended, or at the timeout while the thread is still inside
\* its update
JoinHeartbeat(w, timed_out) ==
  /\ proc[w].at = "job"
  /\ proc[w].stop_event /\ ~proc[w].joined
  /\ \/ proc[w].heartbeat = "ended"
     \/ timed_out /\ proc[w].heartbeat = "write"
  /\ proc' = [proc EXCEPT ![w].joined = TRUE]
  /\ Local

\* _execute_transcription has returned: _update_job_stage(FINALIZING)
BeginFinalizing(w) ==
  /\ proc[w].joined
  /\ StartFinalizing(w, TRUE)

\* _execute_transcription has raised: the except clauses
TranscriptionRaises(w, e, ok) ==
  /\ proc[w].joined
  /\ ExecuteTranscriptionRaises(w, e, ok)

\* _cleanup_temp_file
CleanupTempFile(files, temp_file_path) ==
  IF temp_file_path = NoJob THEN files
  ELSE IF temp_file_path \notin files THEN files
  ELSE files \ {temp_file_path}

\* the finally clause of _process_job; an exception no clause caught goes on
\* through _run_main_loop and start(), and ends the process
ProcessJobFinally(w) ==
  /\ proc[w].at = "job"
  /\ wk[w].pc \in {"idle", "crashed"}
  /\ proc' = [proc EXCEPT
       ![w].files = CleanupTempFile(@, proc[w].temp_file_path),
       ![w].temp_file_path = NoJob,
       ![w].current_job_id = NoJob,
       ![w].at = IF wk[w].pc = "crashed" THEN "exited" ELSE "after_job"]
  /\ Local

\* _reached_max_jobs
ReachedMaxJobs(self) ==
  IF self.max_jobs_per_run <= 0 THEN FALSE
  ELSE self.jobs_processed >= self.max_jobs_per_run

\* if self._reached_max_jobs(): break
AfterJob(w) ==
  /\ proc[w].at = "after_job"
  /\ proc' = [proc EXCEPT ![w].at = IF ReachedMaxJobs(proc[w]) THEN "exited" ELSE "sleep"]
  /\ Local

\* time.sleep(poll_interval)
Sleep(w) ==
  /\ proc[w].at = "sleep"
  /\ proc' = [proc EXCEPT ![w].at = "top"]
  /\ Local

\* enqueue_transcription_job of an object of the user
EnqueueMedia(u, ok) ==
  /\ \E j \in JobIds : ~Exists(j)
  /\ IF ok
       THEN /\ jobs' = [jobs EXCEPT ![FreshId] =
                          ApplyUpdate(ApplyUpdate(ApplyUpdate(AbsentRow, ColumnDefaults),
                                                  BuildJobData(u, DefaultPriority)),
                                      [object_key |-> UserPrefix(u) \o <<"a">>])]
            /\ ret' = Ret(TRUE, FreshId, 0)
       ELSE /\ UNCHANGED jobs
            /\ ret' = Ret(FALSE, NoJob, 0)
  /\ UNCHANGED <<proc, usage, now, today, wk, round, calls>>

\* one run of worker 1: jobs come in, the worker leases and processes them,
\* the store may fail to answer mark_done and mark_failed, a signal may come
RunningWorker == 1

NextRun ==
  \/ EnqueueMedia(LoggedUser, TRUE)
  \/ Start(RunningWorker)
  \/ HandleShutdownSignal(RunningWorker)
  \/ \E due \in BOOLEAN : ProcessMainLoopIteration(RunningWorker, due)
  \/ SweepRelease(RunningWorker, TRUE)
  \/ FetchNone(RunningWorker, TRUE)
  \/ FetchBegin(RunningWorker)
  \/ LeaseCommit(RunningWorker)
  \/ ProcessJobBegins(RunningWorker)
  \/ proc[RunningWorker].at = "job" /\ MarkJobStarted(RunningWorker, TRUE)
  \/ \E o \in {"ok", "not_found", "timeout"} : DownloadEnds(RunningWorker, o, TRUE)
  \/ DownloadWrites(RunningWorker)
  \/ DownloadReturns(RunningWorker)
  \/ BeginTranscribing(RunningWorker)
  \/ StartHeartbeat(RunningWorker)
  \/ StopHeartbeat(RunningWorker)
  \/ HeartbeatCall(RunningWorker)
  \/ HeartbeatWrite(RunningWorker, TRUE)
  \/ HeartbeatEnds(RunningWorker)
  \/ \E timed_out \in BOOLEAN : JoinHeartbeat(RunningWorker, timed_out)
  \/ BeginFinalizing(RunningWorker)
  \/ \E ok \in BOOLEAN :
       TranscriptionRaises(RunningWorker, Error("TranscriptionProcessingError"), ok)
  \/ \E d \in BOOLEAN :
       SaveAndReconcile(RunningWorker, CHOOSE r \in Results : r.duration_sec = 61,
                        0, FALSE, d, TRUE)
  \/ \E ok \in BOOLEAN : MarkFailedWrite(RunningWorker, ok)
  \/ ProcessJobFinally(RunningWorker)
  \/ AfterJob(RunningWorker)
  \/ Sleep(RunningWorker)
  \/ Tick

SpecRun == Init /\ [][NextRun]_vars

\* C31: graceful shutdown. When the main loop of a worker ends after a signal
\* that came while a job was in flight, that job's row is not RUNNING under
\* the worker's id any more: it has left RUNNING through the worker's
\* mark_done or mark_failed; and a worker whose loop has ended leases nothing.
C31_ShutdownCompletesJob ==
  [][\A w \in Workers :
       /\ (proc[w].at # "exited" /\ proc'[w].at = "exited"
             /\ proc'[w].signalled_job # NoJob) =>
            ~(/\ jobs'[proc'[w].signalled_job].status = RUNNING
              /\ jobs'[proc'[w].signalled_job].locked_by = w)
       /\ proc[w].at = "exited" => (proc'[w].at = "exited" /\ wk'[w] = wk[w])]_vars

\* C32: a worker whose loop runs holds at most one lease: at most one row is
\* RUNNING with locked_by = w.
RunningUnder(w) == {j \in JobIds : jobs[j].status = RUNNING /\ jobs[j].locked_by = w}

C32_OneLeaseAtATime ==
  \A w \in Workers :
    proc[w].at \notin {"new", "exited"} => Cardinality(RunningUnder(w)) <= 1


\* C33: when _process_job has returned for a job, on success and on every
\* failure path, the worker's temp directory holds no file of that job.
C33_NoTempFileLeft ==
  [][\A w \in Workers :
       (proc[w].at = "job" /\ proc'[w].at # "job") =>
         proc[w].current_job_id \notin proc'[w].files]_vars


\* C36: an update of the heartbeat thread changes last_heartbeat_at and no
\* other column of any row, and it reaches the store while the attempt it
\* belongs to is still being processed: none lands after the worker's
\* mark_done or mark_failed of that attempt.
HeartbeatLands(w) == proc[w].heartbeat = "write" /\ proc'[w].heartbeat # "write"

C36_HeartbeatStopsWithTranscription ==
  [][\A w \in Workers :
       HeartbeatLands(w) =>
         /\ \A j \in JobIds, f \in DOMAIN AbsentRow \ {"last_heartbeat_at"} :
              jobs'[j][f] = jobs[j][f]
         /\ wk[w].pc \in {"processing", "mark_failed"}
         /\ wk[w].job = proc[w].heartbeat_job]_vars


\* ------------------------------------------- a run under its configuration
\* WORKER_MAX_JOBS_PER_RUN and WORKER_SHUTDOWN_ON_EMPTY as the run finds them
InitConfigured ==
  /\ jobs = [j \in JobIds |-> AbsentRow]
  /\ usage = [k \in Users \X Days |-> NoUsage]
  /\ now = 0
  /\ today = 0
  /\ wk = [w \in Workers |-> Idle]
  /\ ret = Ret(TRUE, NoJob, 0)
  /\ round = NoRound
  /\ calls = <<>>
  /\ \E n \in 0..MaxJobsPerRun, b \in BOOLEAN :
       proc = [w \in Workers |-> NewWorker(n, b)]

\* the steps of the worker process: its loop, its jobs, its heartbeat thread
WorkerStep(w) ==
  \/ Start(w)
  \/ \E due \in BOOLEAN : ProcessMainLoopIteration(w, due)
  \/ SweepRelease(w, TRUE)
  \/ FetchNone(w, TRUE)
  \/ FetchBegin(w)
  \/ LeaseCommit(w)
  \/ ProcessJobBegins(w)
  \/ proc[w].at = "job" /\ MarkJobStarted(w, TRUE)
  \/ DownloadWrites(w)
  \/ DownloadEnds(w, "ok", TRUE)
  \/ DownloadReturns(w)
  \/ BeginTranscribing(w)
  \/ StartHeartbeat(w)
  \/ StopHeartbeat(w)
  \/ HeartbeatEnds(w)
  \/ JoinHeartbeat(w, FALSE)
  \/ BeginFinalizing(w)
  \/ TranscriptionRaises(w, Error("TranscriptionProcessingError"), TRUE)
  \/ SaveAndReconcile(w, CHOOSE r \in Results : r.duration_sec = 61, 0, FALSE, TRUE, TRUE)
  \/ \E ok \in BOOLEAN : MarkFailedWrite(w, ok)
  \/ ProcessJobFinally(w)
  \/ AfterJob(w)
  \/ Sleep(w)

NextConfigured ==
  \/ EnqueueMedia(LoggedUser, TRUE)
  \/ WorkerStep(RunningWorker)
  \/ Tick

\* the process runs on as long as it has a step to take
FairWorker == WF_vars(WorkerStep(RunningWorker))

SpecConfigured == InitConfigured /\ [][NextConfigured]_vars /\ FairWorker

\* C34: with max_jobs_per_run = n > 0 a run leases at most n jobs, and the
\* loop ends right after the job that is the n-th it processed, whatever the
\* outcome of the jobs; with max_jobs_per_run = 0 the loop does not end after
\* a job.
C34_MaxJobsPerRun ==
  [][\A w \in Workers :
       /\ proc[w].max_jobs_per_run > 0 => proc'[w].leased <= proc[w].max_jobs_per_run
       /\ (proc[w].at = "after_job" /\ proc'[w].at # "after_job") =>
            (proc'[w].at = "exited" <=>
               (proc[w].max_jobs_per_run > 0
                  /\ proc[w].leased >= proc[w].max_jobs_per_run))]_vars

\* C35: with shutdown_on_empty, a worker whose polls have found the queue
\* empty for longer than empty_queue_shutdown_minutes leaves its loop, unless
\* a job comes first; without it, a poll that finds the queue empty does not
\* end the loop.
EmptyTooLong(w) ==
  /\ proc[w].shutdown_on_empty
  /\ proc[w].at \notin {"new", "exited"}
  /\ proc[w].empty_since # NoTime
  /\ now - proc[w].empty_since > EmptyShutdownMinutes

C35_ShutdownOnEmpty ==
  /\ \A w \in Workers :
       EmptyTooLong(w) ~> (proc[w].at = "exited" \/ proc[w].empty_since = NoTime)
  /\ [][\A w \in Workers :
          (~proc[w].shutdown_on_empty /\ proc[w].at = "fetch" /\ wk[w].pc = "idle"
             /\ wk'[w].pc = "idle") => proc'[w].at # "exited"]_vars

====
